---- MODULE Spec2Model ----
(***************************************************************************)
(* Dining concierge: the slot-filling dialog turn (hw1-lf1.py) that        *)
(* submits a DiningRequest to the request queue, and the fulfillment       *)
(* worker (hw1-lf2.py) that consumes one queue message per execution.      *)
(*                                                                         *)
(* Text values are TLA+ strings handled character by character (Len,       *)
(* SubSeq, \o) the way the Python string methods handle them.  An optional *)
(* value (Python None or a value) is a sequence of length 0 or 1.          *)
(***************************************************************************)
EXTENDS Integers, Sequences, FiniteSets, TLC

VARIABLES
    prefTable,   \* Preference Store: sessionId -> optional item
    lexAttrs,    \* sessionAttributes the next event of the session carries
    queue,       \* Request Queue: sequence of messages not yet deleted
    nextId,      \* number of DiningRequests submitted so far (fresh ids)
    sessionSent, \* submissions since the session's attributes were last empty
    turn,        \* the last dialog turn: its event, inputs and response
    workers,     \* each worker execution's position and local variables
    notified,    \* message ids for which a notification send succeeded
    deleted,     \* message ids removed from the queue
    exec         \* what the worker step just taken did (None after a step
                 \* that only moves a message or ends an execution)

vars == <<prefTable, lexAttrs, queue, nextId, sessionSent, turn, workers,
          notified, deleted, exec>>

(***************************************************************************)
(* Optional values                                                         *)
(***************************************************************************)
None == <<>>
Some(v) == <<v>>
IsSome(o) == o # <<>>
Val(o) == o[1]
\* Python truthiness of an optional string: not None and not "".
Truthy(o) == o # <<>> /\ o[1] # ""
\* Python `o or ""` for an optional string.
OrEmpty(o) == IF Truthy(o) THEN o[1] ELSE ""

(***************************************************************************)
(* Python string methods                                                   *)
(***************************************************************************)
Ch(s, i) == SubSeq(s, i, i)

\* The characters up to U+00FF that str.lower() changes, and what it makes
\* of each: the ASCII capitals, then U+00C0 to U+00DE without U+00D7.
UpperLetters ==
    "ABCDEFGHIJKLMNOPQRSTUVWXYZ"
    \o "ÀÁÂÃÄÅÆÇÈÉÊËÌÍÎÏÐÑÒÓÔÕÖØÙÚÛÜÝÞ"
LowerLetters ==
    "abcdefghijklmnopqrstuvwxyz"
    \o "àáâãäåæçèéêëìíîïðñòóôõöøùúûüýþ"
\* Characters str.strip() removes and the regex class \s matches: the
\* characters up to U+00FF for which str.isspace() holds.  After the space
\* and the four escapes come U+000B, U+001C to U+001F, U+0085 and U+00A0,
\* written as the characters themselves.
Whitespace ==
    {" ", "\t", "\n", "\r", "\f",
     "", "", "", "", "", "", " "}
\* Characters of Unicode category Nd in the inputs: int() parses these.
DecimalDigits == "0123456789"
\* Characters for which str.isdigit() holds and int() raises ValueError
\* (Numeric_Type=Digit, not Decimal): the superscript digits of Latin-1.
NonDecimalDigits == {"¹", "²", "³"}

Chars(s) == {Ch(s, i) : i \in 1..Len(s)}

IndexIn(c, s) == CHOOSE i \in 1..Len(s) : Ch(s, i) = c

\* str.lower() on one character: the character of LowerLetters at the place
\* it has in UpperLetters, any other character unchanged.
LowerOf == [c \in Chars(UpperLetters) |-> Ch(LowerLetters, IndexIn(c, UpperLetters))]

LowerChar(c) == IF c \in DOMAIN LowerOf THEN LowerOf[c] ELSE c

RECURSIVE Lower(_)
Lower(s) == IF s = "" THEN "" ELSE LowerChar(Head(s)) \o Lower(Tail(s))

RECURSIVE LStrip(_)
LStrip(s) == IF s # "" /\ Head(s) \in Whitespace THEN LStrip(Tail(s)) ELSE s

RECURSIVE RStrip(_)
RStrip(s) ==
    IF s # "" /\ Ch(s, Len(s)) \in Whitespace
    THEN RStrip(SubSeq(s, 1, Len(s) - 1))
    ELSE s

Strip(s) == RStrip(LStrip(s))

\* Python `needle in hay`.
Contains(hay, needle) ==
    \E i \in 0..(Len(hay) - Len(needle)) :
        SubSeq(hay, i + 1, i + Len(needle)) = needle

DigitValue == [c \in Chars(DecimalDigits) |-> IndexIn(c, DecimalDigits) - 1]

IsDecimalChar(c) == c \in DOMAIN DigitValue
IsDigitChar(c) == IsDecimalChar(c) \/ c \in NonDecimalDigits

\* str.isdigit(): non-empty and every character is a digit character.
IsDigit(s) == s # "" /\ \A i \in 1..Len(s) : IsDigitChar(Ch(s, i))

\* int(s) succeeds on an isdigit() string iff every character is decimal.
IntParses(s) == \A i \in 1..Len(s) : IsDecimalChar(Ch(s, i))

RECURSIVE IntOf(_)
IntOf(s) ==
    IF s = "" THEN 0
    ELSE 10 * IntOf(SubSeq(s, 1, Len(s) - 1)) + DigitValue[Ch(s, Len(s))]

\* One character of the regex class [^@\s].
EmailChar(c) == c # "@" /\ c \notin Whitespace
AllEmailChars(s, a, b) == a <= b /\ \A k \in a..b : EmailChar(Ch(s, k))

\* re.fullmatch(r"[^@\s]+@[^@\s]+\.[^@\s]+", s)
EmailMatches(s) ==
    \E i \in 1..Len(s) : \E j \in 1..Len(s) :
        /\ i < j
        /\ Ch(s, i) = "@"
        /\ Ch(s, j) = "."
        /\ AllEmailChars(s, 1, i - 1)
        /\ AllEmailChars(s, i + 1, j - 1)
        /\ AllEmailChars(s, j + 1, Len(s))

(***************************************************************************)
(* Dialog turn (hw1-lf1.py)                                                *)
(***************************************************************************)
ALLOWED_CUISINES ==
    {"chinese", "japanese", "italian", "mexican", "indpak", "korean", "thai",
     "vietnamese"}

MinPartySize == 1
MaxPartySize == 20

SlotNames == {"Location", "Cuisine", "DiningTime", "NumberOfPeople", "Email"}

MsgGreeting == "Hi there, how can I help?"
MsgThanks == "You're welcome."
MsgFallback == "Sorry, I couldn't understand that."
MsgLocation ==
    "Sorry, I can only support Manhattan. Please provide a valid location."
MsgCuisine ==
    "Please choose one of: Chinese, Japanese, Italian, Mexican, Korean, Thai, Indpak, Vietnamese."
MsgPartySize == "Please provide a party size between 1 and 20."
MsgEmail == "Please provide a valid email address."
\* (the source's typographic apostrophe is written ' here)
MsgConfirm ==
    "You're all set. I will send restaurant suggestions to your email shortly."

\* A slot is None or Some(slot object); slot_value is
\* val.get("interpretedValue") or val.get("originalValue").
slot_value(slots, name) ==
    IF slots[name] = None THEN None
    ELSE IF Truthy(slots[name][1].interpretedValue)
         THEN slots[name][1].interpretedValue
         ELSE slots[name][1].originalValue

make_slot(v) ==
    Some([originalValue |-> Some(v),
          interpretedValue |-> Some(v),
          resolvedValues |-> <<v>>])

\* A fault of get_prefs: the failure of get_item is not noticed.
GetIgnoringFailure(table, session_id, getOk) == table[session_id]

\* get_prefs: the stored item, or None when get_item raises.
get_prefs(table, session_id, getOk) ==
    IF getOk THEN table[session_id] ELSE None

\* A fault of the item: the two values change places.
PrefItemSwapped(session_id, location, cuisine) ==
    [sessionId |-> session_id, lastLocation |-> cuisine,
     lastCuisine |-> location]

\* The item save_prefs puts (updatedAt, a timestamp, is left out).
PrefItem(session_id, location, cuisine) ==
    [sessionId |-> session_id, lastLocation |-> location,
     lastCuisine |-> cuisine]

\* save_prefs: the table after put_item; unchanged when put_item raises.
save_prefs(table, item, saveOk) ==
    IF saveOk THEN [table EXCEPT ![item.sessionId] = Some(item)] ELSE table

\* The response builders close / elicit / delegate / delegate_with_message.
\* A fault of close: the session attributes are not passed on.
CloseDroppingAttrs(intent_name, slots, message, session_attributes) ==
    [type |-> "Close", slotToElicit |-> None,
     intent |-> [name |-> intent_name, slots |-> slots, state |-> "Fulfilled"],
     sessionAttributes |-> [enqueued |-> None, reused_notice |-> None],
     message |-> Some(message)]

close(intent_name, slots, message, session_attributes) ==
    [type |-> "Close", slotToElicit |-> None,
     intent |-> [name |-> intent_name, slots |-> slots, state |-> "Fulfilled"],
     sessionAttributes |-> session_attributes,
     message |-> Some(message)]

elicit(intent_name, slots, slot_to_elicit, message, session_attributes) ==
    [type |-> "ElicitSlot", slotToElicit |-> Some(slot_to_elicit),
     intent |-> [name |-> intent_name, slots |-> slots, state |-> "InProgress"],
     sessionAttributes |-> session_attributes,
     message |-> Some(message)]

delegate(intent_name, slots, session_attributes) ==
    [type |-> "Delegate", slotToElicit |-> None,
     intent |-> [name |-> intent_name, slots |-> slots, state |-> "InProgress"],
     sessionAttributes |-> session_attributes,
     message |-> None]

delegate_with_message(intent_name, slots, message, session_attributes) ==
    [type |-> "Delegate", slotToElicit |-> None,
     intent |-> [name |-> intent_name, slots |-> slots, state |-> "InProgress"],
     sessionAttributes |-> session_attributes,
     message |-> Some(message)]

\* What one invocation did: its response (None when it raised), the
\* exception, the external calls in the order made, the item handed to
\* save_prefs, the payload the queue accepted, and the slots pre-filled.
Outcome(resp, error, calls, item, sent, filled) ==
    [resp |-> resp, error |-> error, calls |-> calls, item |-> item,
     sent |-> sent, filled |-> filled]

Returned(resp, calls, filled) ==
    Outcome(Some(resp), None, calls, None, None, filled)

\* Lines 124-136: whether the preference lookup runs, and its pre-fill.
LooksUpPrefs(event) ==
    event.invocationSource = "DialogCodeHook" /\ Truthy(event.sessionId)

FillsLocation(slots, pref) ==
    /\ IsSome(pref)
    /\ ~Truthy(slot_value(slots, "Location"))
    /\ pref[1].lastLocation # ""

FillsCuisine(slots, pref) ==
    /\ IsSome(pref)
    /\ ~Truthy(slot_value(slots, "Cuisine"))
    /\ pref[1].lastCuisine # ""

\* A fault of the pre-fill: the slots are left as received.
Unfilled(slots, pref) == slots

\* A fault of the pre-fill: the slot written carries the value only among
\* its resolved values, where slot_value does not look.
PrefilledResolvedOnly(slots, pref) ==
    [slots EXCEPT
        !["Location"] = IF FillsLocation(slots, pref)
                        THEN Some([originalValue |-> None,
                                   interpretedValue |-> None,
                                   resolvedValues |-> <<pref[1].lastLocation>>])
                        ELSE @,
        !["Cuisine"] = IF FillsCuisine(slots, pref)
                       THEN Some([originalValue |-> None,
                                  interpretedValue |-> None,
                                  resolvedValues |-> <<pref[1].lastCuisine>>])
                       ELSE @]

Prefilled(slots, pref) ==
    [slots EXCEPT
        !["Location"] = IF FillsLocation(slots, pref)
                        THEN make_slot(pref[1].lastLocation)
                        ELSE @,
        !["Cuisine"] = IF FillsCuisine(slots, pref)
                       THEN make_slot(pref[1].lastCuisine)
                       ELSE @]

\* Lines 139-146: the reuse notice, ", ".join(parts) between the brackets.
ReuseNotice(slots, filled_location, filled_cuisine) ==
    "Reusing your last preferences ("
    \o (IF filled_location
        THEN "location: " \o OrEmpty(slot_value(slots, "Location"))
        ELSE "")
    \o (IF filled_location /\ filled_cuisine THEN ", " ELSE "")
    \o (IF filled_cuisine
        THEN "cuisine: " \o OrEmpty(slot_value(slots, "Cuisine"))
        ELSE "")
    \o ")."

\* A fault of the cuisine check: every cuisine passes.
AnyCuisine(cuisine) == FALSE

\* Lines 158-168: the slot checks, on the stripped values.
LocationInvalid(location) ==
    /\ location # ""
    /\ ~Contains(Lower(location), "manhattan")
    /\ ~Contains(Lower(location), "new york")

CuisineInvalid(cuisine) ==
    cuisine # "" /\ Lower(cuisine) \notin ALLOWED_CUISINES

\* int(party_size) is reached when isdigit() holds; it raises ValueError on
\* a digit character that is not decimal.
PartySizeRaises(party_size) ==
    party_size # "" /\ IsDigit(party_size) /\ ~IntParses(party_size)

PartySizeInvalid(party_size) ==
    /\ party_size # ""
    /\ \/ ~IsDigit(party_size)
       \/ IntOf(party_size) < MinPartySize
       \/ IntOf(party_size) > MaxPartySize

EmailInvalid(email) == email # "" /\ ~EmailMatches(email)

\* A fault of the payload: the cuisine as typed.
PayloadAsTyped(location, cuisine, dining_time, party_size, email, requestId) ==
    [location |-> location,
     cuisine |-> cuisine,
     diningTime |-> dining_time,
     partySize |-> party_size,
     email |-> email,
     requestId |-> requestId]

\* Lines 186-194 (createdAt, a timestamp, is left out).
Payload(location, cuisine, dining_time, party_size, email, requestId) ==
    [location |-> location,
     cuisine |-> Lower(cuisine),
     diningTime |-> dining_time,
     partySize |-> party_size,
     email |-> email,
     requestId |-> requestId]

\* Lines 174-207: all required slots are present and valid.
\* Faults of the guard: it never finds the attribute / the attribute is
\* never set.
NeverEnqueued(session_attrs) == FALSE

LeaveUnmarked(session_attrs) == session_attrs

\* Line 175: the guard on the enqueued session attribute.
AlreadyEnqueued(session_attrs) == session_attrs.enqueued = Some("1")

\* Line 184: the attribute set before the submission.
MarkEnqueued(session_attrs) == [session_attrs EXCEPT !.enqueued = Some("1")]

\* A fault of the ordering: the submission comes first.
SubmitFirst(calls, saves) ==
    calls \o <<"send_message", "set_enqueued">>
          \o (IF saves THEN <<"put_item">> ELSE <<>>)

\* Lines 184-200: the effects of the fulfilling turn in the order made: the
\* attribute set (184), save_prefs when there is a session id (197-198),
\* send_message (200).
FulfilCalls(calls, saves) ==
    calls \o <<"set_enqueued">>
          \o (IF saves THEN <<"put_item">> ELSE <<>>)
          \o <<"send_message">>

Fulfil(event, slots, session_attrs, calls, requestId, sendOk) ==
    LET intent_name == event.intent
        location == Strip(OrEmpty(slot_value(slots, "Location")))
        cuisine == Strip(OrEmpty(slot_value(slots, "Cuisine")))
        dining_time == Strip(OrEmpty(slot_value(slots, "DiningTime")))
        party_size == Strip(OrEmpty(slot_value(slots, "NumberOfPeople")))
        email == Strip(OrEmpty(slot_value(slots, "Email")))
        marked == MarkEnqueued(session_attrs)
        payload == Payload(location, cuisine, dining_time, party_size, email,
                           requestId)
        saves == Truthy(event.sessionId)
        item == IF saves
                THEN Some(PrefItem(Val(event.sessionId), Lower(location),
                                   Lower(cuisine)))
                ELSE None
        calls2 == FulfilCalls(calls, saves)
    IN  IF AlreadyEnqueued(session_attrs)
        THEN Returned(close(intent_name, slots, MsgConfirm, session_attrs),
                      calls, {})
        ELSE IF sendOk
        THEN Outcome(Some(close(intent_name, slots, MsgConfirm, marked)), None,
                     calls2, item, Some(payload), {})
        ELSE Outcome(None, Some("QueueSubmissionError"), calls2, item, None,
                     {})

\* A fault of the required-slot check: the dining time is not required.
TimeOptional(location, cuisine, dining_time, party_size, email) ==
    \E v \in {location, cuisine, party_size, email} : v = ""

\* Lines 170-171: some required slot is still empty.
RequiredMissing(location, cuisine, dining_time, party_size, email) ==
    \E v \in {location, cuisine, dining_time, party_size, email} : v = ""

\* Lines 152-172: validation in the order location, cuisine, party size,
\* email, then the check that every required slot is present.
Validate(event, slots, session_attrs, calls, requestId, sendOk) ==
    LET intent_name == event.intent
        location == Strip(OrEmpty(slot_value(slots, "Location")))
        cuisine == Strip(OrEmpty(slot_value(slots, "Cuisine")))
        dining_time == Strip(OrEmpty(slot_value(slots, "DiningTime")))
        party_size == Strip(OrEmpty(slot_value(slots, "NumberOfPeople")))
        email == Strip(OrEmpty(slot_value(slots, "Email")))
    IN  IF LocationInvalid(location)
        THEN Returned(elicit(intent_name, slots, "Location", MsgLocation,
                             session_attrs), calls, {})
        ELSE IF CuisineInvalid(cuisine)
        THEN Returned(elicit(intent_name, slots, "Cuisine", MsgCuisine,
                             session_attrs), calls, {})
        ELSE IF PartySizeRaises(party_size)
        THEN Outcome(None, Some("ValueError"), calls, None, None, {})
        ELSE IF PartySizeInvalid(party_size)
        THEN Returned(elicit(intent_name, slots, "NumberOfPeople",
                             MsgPartySize, session_attrs), calls, {})
        ELSE IF EmailInvalid(email)
        THEN Returned(elicit(intent_name, slots, "Email", MsgEmail,
                             session_attrs), calls, {})
        ELSE IF RequiredMissing(location, cuisine, dining_time, party_size,
                                email)
        THEN Returned(delegate(intent_name, slots, session_attrs), calls, {})
        ELSE Fulfil(event, slots, session_attrs, calls, requestId, sendOk)

\* A fault of the priority: the notice is returned only when validation has
\* nothing to ask.
NoticeAfterValidation(slots, filled_location, filled_cuisine) ==
    /\ filled_location \/ filled_cuisine
    /\ ~LocationInvalid(Strip(OrEmpty(slot_value(slots, "Location"))))
    /\ ~CuisineInvalid(Strip(OrEmpty(slot_value(slots, "Cuisine"))))
    /\ ~PartySizeInvalid(Strip(OrEmpty(slot_value(slots, "NumberOfPeople"))))
    /\ ~EmailInvalid(Strip(OrEmpty(slot_value(slots, "Email"))))

\* Line 138: the turn answers with the reuse notice when it filled a slot,
\* whatever the slots hold.
AnswersWithNotice(slots, filled_location, filled_cuisine) ==
    filled_location \/ filled_cuisine

\* lambda_handler of hw1-lf1.py: one dialog turn.  pref is what get_prefs
\* returned (consulted only when the lookup runs), sendOk whether
\* send_message succeeds.
lambda_handler(event, pref0, requestId, sendOk) ==
    LET intent_name == event.intent
        slots == event.slots
        session_attrs == event.sessionAttributes
        pref == IF LooksUpPrefs(event) THEN pref0 ELSE None
        calls == IF LooksUpPrefs(event) THEN <<"get_item">> ELSE <<>>
        filled_location == FillsLocation(slots, pref)
        filled_cuisine == FillsCuisine(slots, pref)
        slots2 == Prefilled(slots, pref)
        msg == ReuseNotice(slots2, filled_location, filled_cuisine)
        noticed == [session_attrs EXCEPT !.reused_notice = Some(msg)]
    IN  IF intent_name = "GreetingIntent"
        THEN Returned(close(intent_name, slots, MsgGreeting, session_attrs),
                      <<>>, {})
        ELSE IF intent_name = "ThankYouIntent"
        THEN Returned(close(intent_name, slots, MsgThanks, session_attrs),
                      <<>>, {})
        ELSE IF intent_name # "DiningSuggestionsIntent"
        THEN Returned(close(intent_name, slots, MsgFallback, session_attrs),
                      <<>>, {})
        ELSE IF AnswersWithNotice(slots2, filled_location, filled_cuisine)
        THEN Returned(delegate_with_message(intent_name, slots2, msg, noticed),
                      calls,
                      (IF filled_location THEN {"Location"} ELSE {})
                      \cup (IF filled_cuisine THEN {"Cuisine"} ELSE {}))
        ELSE Validate(event, slots2, session_attrs, calls, requestId, sendOk)

(***************************************************************************)
(* Dialog inputs                                                           *)
(***************************************************************************)
\* The largest number of DiningRequests submitted in one behaviour.
MaxSends == 2

Sessions == {"web-session"}

EmptyAttrs == [enqueued |-> None, reused_notice |-> None]

\* A slot the NLU layer could not resolve: only the original text is set.
unresolved_slot(v) ==
    Some([originalValue |-> Some(v),
          interpretedValue |-> None,
          resolvedValues |-> <<>>])

MkSlots(location, cuisine, dining_time, party_size, email) ==
    [Location |-> location, Cuisine |-> cuisine, DiningTime |-> dining_time,
     NumberOfPeople |-> party_size, Email |-> email]

MkEvent(intent, source, session_id, slots) ==
    [intent |-> intent, invocationSource |-> source, sessionId |-> session_id,
     slots |-> slots]

ValidSlots ==
    MkSlots(make_slot("Manhattan"), make_slot("Japanese"), make_slot("7pm"),
            make_slot("4"), make_slot("a@b.com"))

\* The same request as the NLU layer may hand it over: values padded with
\* whitespace, the location left unresolved.
PaddedSlots ==
    MkSlots(unresolved_slot(" Manhattan"), make_slot(" Japanese "),
            make_slot("7pm "), make_slot(" 4"), make_slot("a@b.com\n"))

\* A second complete request, for another party size.
LargePartySlots == [ValidSlots EXCEPT !["NumberOfPeople"] = make_slot("20")]

\* All required slots set but the dining time: validation runs to its end
\* and a turn with valid values ends in Delegate.
NoTimeSlots == [ValidSlots EXCEPT !["DiningTime"] = None]

DiningEvent(slots) ==
    MkEvent("DiningSuggestionsIntent", "DialogCodeHook", Some("web-session"),
            slots)

\* Location and cuisine unset / valid / invalid, crossed with party size and
\* email valid / invalid; location and cuisine unset / valid with one or all
\* of the other slots unset; an invalid cuisine, after a valid and after an
\* invalid location, with all of the other slots unset.
CoreEvents ==
    {DiningEvent(MkSlots(l, c, make_slot("7pm"), p, m)) :
        l \in {None, make_slot("Manhattan"), make_slot("Boston")},
        c \in {None, make_slot("Japanese"), make_slot("french")},
        p \in {make_slot("4"), make_slot("21")},
        m \in {make_slot("a@b.com"), make_slot("bad")}}
    \cup
    {DiningEvent(MkSlots(l, c, r[1], r[2], r[3])) :
        l \in {None, make_slot("Manhattan")},
        c \in {None, make_slot("Japanese")},
        r \in {<<None, make_slot("4"), make_slot("a@b.com")>>,
               <<make_slot("7pm"), None, make_slot("a@b.com")>>,
               <<make_slot("7pm"), make_slot("4"), None>>,
               <<None, None, None>>}}
    \cup
    {DiningEvent(MkSlots(l, make_slot("french"), None, None, None)) :
        l \in {make_slot("Manhattan"), make_slot("Boston")}}

\* Boundary and odd values of one slot, the others valid.
PartySizeEdges == {"0", "1", "20", "abc", "-3", " 7 ", "²"}

EdgeEvents ==
    {DiningEvent([NoTimeSlots EXCEPT !["NumberOfPeople"] = make_slot(p)]) :
        p \in PartySizeEdges}
    \cup
    {DiningEvent([NoTimeSlots EXCEPT !["NumberOfPeople"] = make_slot(p),
                                     !["Location"] = make_slot("Boston")]) :
        p \in {"0", "²"}}
    \cup
    {DiningEvent([NoTimeSlots EXCEPT !["Cuisine"] = c]) :
        c \in {make_slot(" "), unresolved_slot("french"), make_slot("")}}
    \cup
    {DiningEvent([NoTimeSlots EXCEPT !["Location"] = make_slot("NYC")])}
    \cup
    {DiningEvent([NoTimeSlots EXCEPT !["Email"] = m]) :
        m \in {make_slot("a@b"), make_slot("a b@c.d")}}
    \cup
    {DiningEvent(PaddedSlots), DiningEvent(LargePartySlots)}

\* The fulfillment hook and a missing session id skip the preference lookup.
OtherSourceEvents ==
    {MkEvent("DiningSuggestionsIntent", "FulfillmentCodeHook",
             Some("web-session"),
             [ValidSlots EXCEPT !["Location"] = l, !["Cuisine"] = c]) :
        l \in {None, make_slot("Manhattan")},
        c \in {None, make_slot("Japanese")}}
    \cup
    {MkEvent("DiningSuggestionsIntent", "DialogCodeHook", None,
             [ValidSlots EXCEPT !["Location"] = l]) :
        l \in {None, make_slot("Manhattan")}}

OtherIntentEvents ==
    {MkEvent(i, "DialogCodeHook", Some("web-session"), sl) :
        i \in {"GreetingIntent", "ThankYouIntent", "OrderPizzaIntent"},
        sl \in {ValidSlots, MkSlots(None, None, None, None, None)}}

Events == CoreEvents \cup EdgeEvents \cup OtherSourceEvents \cup OtherIntentEvents

\* A fault of the request id: none is generated.
NoRequestId(n) == ""

\* str(uuid.uuid4()): a fresh, non-empty string per submission.
RequestId(n) == "req-" \o Ch(DecimalDigits, n + 1)

\* The event as the handler receives it: with the caller's sessionAttributes.
Received(proto, attrs) ==
    [intent |-> proto.intent, invocationSource |-> proto.invocationSource,
     sessionId |-> proto.sessionId, slots |-> proto.slots,
     sessionAttributes |-> attrs]

Range(f) == {f[i] : i \in DOMAIN f}

(***************************************************************************)
(* Fulfillment worker (hw1-lf2.py)                                         *)
(***************************************************************************)
\* The number of ids random.sample draws, and the least number of
\* candidates the worker accepts.
SampleSize == 3
MinCandidates == 3

\* The most times one message is received (first delivery and redeliveries).
MaxReceives == 2

Workers == {"w1", "w2"}

\* TEST_RECIPIENT is unset in the environment modelled.
TEST_RECIPIENT == None

IdleWorker == [pc |-> "idle", msg |-> None]

\* query_opensearch_ids: the RestaurantID of every hit that has one; raises
\* on a status of 300 or more.
RECURSIVE HitIds(_)
HitIds(hits) ==
    IF hits = <<>> THEN <<>>
    ELSE (IF Head(hits) # "" THEN <<Head(hits)>> ELSE <<>>)
         \o HitIds(Tail(hits))

query_opensearch_ids(response) ==
    IF response.status >= 300
    THEN [error |-> Some("SearchUnavailable"), ids |-> <<>>]
    ELSE [error |-> None, ids |-> HitIds(response.hits)]

\* random.sample(ids, 3): the elements at three distinct positions, in the
\* order drawn; it raises ValueError on fewer than three elements.
Draws(n) ==
    {p \in [1..SampleSize -> 1..n] :
        \A i \in 1..SampleSize : \A j \in 1..SampleSize :
            i # j => p[i] # p[j]}

Sample(ids, p) == [i \in 1..SampleSize |-> ids[p[i]]]

\* The Catalog Store's record of a business.
Restaurant(rid) ==
    [businessId |-> rid, name |-> "Cafe " \o rid, address |-> rid \o " Main St",
     rating |-> "4.5", review_count |-> "10"]

\* batch_get_restaurants: the records found, in the order of ids.
RECURSIVE FoundIn(_, _)
FoundIn(ids, by_id) ==
    IF ids = <<>> THEN <<>>
    ELSE (IF Head(ids) \in by_id THEN <<Restaurant(Head(ids))>> ELSE <<>>)
         \o FoundIn(Tail(ids), by_id)

\* A fault of batch_get_restaurants: fewer records than ids is an error.
FailOnPartial(ids, catalog, catalogOk) ==
    IF catalogOk /\ Len(FoundIn(ids, catalog)) = Len(ids)
    THEN [error |-> None, items |-> FoundIn(ids, catalog)]
    ELSE [error |-> Some("CatalogUnavailable"), items |-> <<>>]

\* A fault of batch_get_restaurants: a failed batch_get_item reads as no
\* record found.
CatalogFailureAsEmpty(ids, catalog, catalogOk) ==
    [error |-> None,
     items |-> IF catalogOk THEN FoundIn(ids, catalog) ELSE <<>>]

batch_get_restaurants(ids, catalog, catalogOk) ==
    IF catalogOk
    THEN [error |-> None, items |-> FoundIn(ids, catalog)]
    ELSE [error |-> Some("CatalogUnavailable"), items |-> <<>>]

format_item(it) ==
    "- " \o it.name \o " | " \o it.address \o " | rating " \o it.rating
    \o " (" \o it.review_count \o " reviews)"

\* "\n".join(lines)
RECURSIVE JoinLines(_)
JoinLines(lines) ==
    IF lines = <<>> THEN ""
    ELSE IF Len(lines) = 1 THEN lines[1]
    ELSE lines[1] \o "\n" \o JoinLines(Tail(lines))

\* Lines 85-90 and 104-121: the notification handed to send_email.
Notification(body, items) ==
    [to |-> Strip(IF Truthy(TEST_RECIPIENT) THEN Val(TEST_RECIPIENT)
                  ELSE body.email),
     subject |-> "Your Dining Concierge Suggestions",
     lines |-> [i \in 1..Len(items) |-> format_item(items[i])],
     text |-> "Hello!\n\nHere are your " \o Strip(Lower(body.cuisine))
              \o " suggestions in " \o Strip(body.location) \o " for "
              \o Strip(body.partySize) \o " people at "
              \o Strip(body.diningTime) \o ":\n\n"
              \o JoinLines([i \in 1..Len(items) |-> format_item(items[i])])
              \o "\n\nEnjoy your meal!"]

\* What lines 83-121 did with a received message: the exception raised (None
\* when send_email returned), the external calls in the order made, the
\* candidate ids, the ids handed to the Catalog Store, the records found and
\* the notification sent.
Processed(error, calls, ids, chosen, items, mail) ==
    [error |-> error, calls |-> calls, ids |-> ids, chosen |-> chosen,
     items |-> items, mail |-> mail]

\* A fault of the guard: two candidates pass.
FewerThanTwo(ids) == Len(ids) < 2

\* Lines 94-95: the guard on the number of candidates.
TooFew(ids) == Len(ids) < MinCandidates

\* Lines 83-121 for one message: the search response, the draw, the
\* catalog's content and the outcome of the catalog and send calls given.
process(body, response, p, catalog, catalogOk, sendOk) ==
    LET found == query_opensearch_ids(response)
        ids == found.ids
        chosen == Sample(ids, p)
        got == batch_get_restaurants(chosen, catalog, catalogOk)
        mail == Notification(body, got.items)
    IN  IF IsSome(found.error)
        THEN Processed(found.error, <<"search">>, <<>>, <<>>, <<>>, None)
        ELSE IF TooFew(ids)
        THEN Processed(Some("InsufficientCandidates"), <<"search">>, ids,
                       <<>>, <<>>, None)
        ELSE IF Len(ids) < SampleSize
        THEN Processed(Some("ValueError"), <<"search">>, ids, <<>>, <<>>,
                       None)
        ELSE IF IsSome(got.error)
        THEN Processed(got.error, <<"search", "batch_get_item">>, ids, chosen,
                       <<>>, None)
        ELSE IF ~sendOk
        THEN Processed(Some("NotificationSendError"),
                       <<"search", "batch_get_item", "send_email">>, ids,
                       chosen, got.items, None)
        ELSE Processed(None, <<"search", "batch_get_item", "send_email">>,
                       ids, chosen, got.items, Some(mail))

\* A fault of the ordering: the execution ends after the send.
EndAfterSend(w, done) == IdleWorker

\* A fault of the ordering: the delete is reached whatever the send did.
ProceedToDelete(w, done) == [workers[w] EXCEPT !.pc = "sent"]

\* The position after line 121: at the delete when send_email returned,
\* otherwise the execution has ended with the exception.
AfterProcess(w, done) ==
    IF done.error = None
    THEN [workers[w] EXCEPT !.pc = "sent"]
    ELSE IdleWorker

(***************************************************************************)
(* Initial state: empty stores, an empty queue, no execution running.      *)
(***************************************************************************)
Init ==
    /\ prefTable = [s \in Sessions |-> None]
    /\ lexAttrs = EmptyAttrs
    /\ queue = <<>>
    /\ nextId = 0
    /\ sessionSent = 0
    /\ turn = None
    /\ workers = [w \in Workers |-> IdleWorker]
    /\ notified = {}
    /\ deleted = {}
    /\ exec = None

workerVars == <<workers, notified, deleted, exec>>

(***************************************************************************)
(* One dialog turn: lambda_handler of hw1-lf1.py run on an event, with     *)
(* the outcome of each external call it makes.                             *)
(***************************************************************************)
\* A fault of line 111: the handler works on a copy of the attributes, and
\* the dict of its event is never changed.
CopiedAttrs(attrs, out) == attrs

\* The sessionAttributes dict of the event once the invocation has ended.
\* Line 111 takes a reference to it, or a new dict when it is empty or
\* missing (x or {}); lines 147 and 184 then write into the dict they hold.
\* An empty dict is therefore left as it was; any other one is the dict the
\* handler returns, or, when the handler raised after line 184, the one it
\* received with enqueued = "1".
EventAttrs(attrs, out) ==
    IF attrs = EmptyAttrs THEN attrs
    ELSE IF IsSome(out.resp) THEN Val(out.resp).sessionAttributes
    ELSE IF \E i \in DOMAIN out.calls : out.calls[i] = "set_enqueued"
    THEN MarkEnqueued(attrs)
    ELSE attrs

\* The record of a turn: what it received (the event, whether get_item
\* succeeds and what get_prefs returned, whether put_item and send_message
\* succeed), what it did, the sessionAttributes dict of its event as the
\* invocation left it, and the stores as they were before it.
TurnRecord(event, getOk, pref, saveOk, sendOk, out, q, table) ==
    [event |-> event, getOk |-> getOk, pref |-> pref, saveOk |-> saveOk,
     sendOk |-> sendOk, out |-> out,
     left |-> EventAttrs(event.sessionAttributes, out),
     before |-> [queue |-> q, prefTable |-> table]]

\* The next turn of the session receives the sessionAttributes the turn
\* returned.  A turn that raised returned none: the next event then carries
\* either the attributes that were sent to it or the dict of its event as
\* the invocation left it; the handler determines neither.
Apply(event, getOk, pref, saveOk, sendOk, out) ==
    /\ IsSome(out.sent) => nextId < MaxSends
    /\ prefTable' = IF IsSome(out.item)
                    THEN save_prefs(prefTable, out.item[1], saveOk)
                    ELSE prefTable
    /\ queue' = IF IsSome(out.sent)
                THEN Append(queue, [id |-> nextId + 1,
                                    body |-> out.sent[1],
                                    inflight |-> FALSE,
                                    receives |-> 0])
                ELSE queue
    /\ nextId' = IF IsSome(out.sent) THEN nextId + 1 ELSE nextId
    /\ sessionSent' = IF IsSome(out.sent) THEN sessionSent + 1 ELSE sessionSent
    /\ lexAttrs' \in IF IsSome(out.resp)
                     THEN {Val(out.resp).sessionAttributes}
                     ELSE {event.sessionAttributes,
                           EventAttrs(event.sessionAttributes, out)}
    /\ turn' = Some(TurnRecord(event, getOk, pref, saveOk, sendOk, out, queue,
                               prefTable))
    /\ UNCHANGED workerVars

\* Lines 116-126: get_prefs is called in a turn of the dining intent that
\* passes the test of line 125; the other intents return before it.
ReachesLookup(event) ==
    event.intent = "DiningSuggestionsIntent" /\ LooksUpPrefs(event)

\* Whether get_item succeeds, for a turn that reaches it.
GetOutcomes(event) == IF ReachesLookup(event) THEN BOOLEAN ELSE {TRUE}

\* What get_prefs returns in this state: the stored item, or None; None
\* also stands for the turn that makes no lookup.
PrefResult(event, getOk) ==
    IF ReachesLookup(event)
    THEN get_prefs(prefTable, Val(event.sessionId), getOk)
    ELSE None

\* The turn, with each external call it reaches succeeding or failing.
DialogTurn(E) ==
    \E proto \in E :
        \E event \in {Received(proto, lexAttrs)} :
            \E getOk \in GetOutcomes(event) :
            \E pref \in {PrefResult(event, getOk)} :
                \E ok \in {lambda_handler(event, pref, RequestId(nextId + 1),
                                          TRUE)} :
                    \/ Apply(event, getOk, pref, TRUE, TRUE, ok)
                    \/ /\ IsSome(ok.item)
                       /\ Apply(event, getOk, pref, FALSE, TRUE, ok)
                    \/ /\ IsSome(ok.sent)
                       /\ \E saveOk \in (IF IsSome(ok.item) THEN BOOLEAN
                                         ELSE {TRUE}) :
                            Apply(event, getOk, pref, saveOk, FALSE,
                                  lambda_handler(event, pref,
                                                 RequestId(nextId + 1), FALSE))

\* The session ends and a new one starts: empty sessionAttributes, no turn
\* taken yet.
NewSession ==
    /\ turn # None
    /\ lexAttrs' = EmptyAttrs
    /\ sessionSent' = 0
    /\ turn' = None
    /\ UNCHANGED <<prefTable, queue, nextId, workerVars>>

(***************************************************************************)
(* Request Queue (consumer side) and the worker's steps                    *)
(***************************************************************************)
Position(id) == CHOOSE i \in DOMAIN queue : queue[i].id = id
InQueue(id) == \E i \in DOMAIN queue : queue[i].id = id

\* The receipt handle of m is not the latest one given out for its message.
Stale(m) ==
    IF InQueue(m.id) THEN queue[Position(m.id)].receives > m.receipt ELSE TRUE

\* The receipt handle a worker holds: the message and the delivery.
Handle(m) == [id |-> m.id, receipt |-> m.receipt]

\* A fault of the delete: the message at the head of the queue is removed,
\* whichever the handle names.
WithoutHead(q, id) == Tail(q)

Without(q, id) == SelectSeq(q, LAMBDA m : m.id # id)

\* Responses the Search Index can give, and contents of the Catalog Store.
Responses(hitLists) ==
    {[status |-> 200, hits |-> h] : h \in hitLists}
    \cup {[status |-> 503, hits |-> <<>>]}

\* Line 77: MaxNumberOfMessages of receive_message.
MaxNumberOfMessages == 1

\* What receive_message can return: up to MaxNumberOfMessages of the
\* visible messages, as positions in the queue (none on a short poll that
\* misses).
DeliveriesOf(visible) ==
    UNION {{d \in [1..n -> visible] :
              \A j \in 1..n : \A k \in 1..n : j # k => d[j] # d[k]} :
           n \in 0..MaxNumberOfMessages}

\* The deliveries of the messages received fewer than MaxReceives times.
Deliveries ==
    DeliveriesOf({i \in DOMAIN queue :
                    ~queue[i].inflight /\ queue[i].receives < MaxReceives})

\* The deliveries of a queue that redelivers without end.
Redeliveries == DeliveriesOf({i \in DOMAIN queue : ~queue[i].inflight})

\* The receive count after one more delivery; deliveries past the
\* MaxReceives-th are counted as that one.
Counted(n) == IF n < MaxReceives THEN n + 1 ELSE MaxReceives

\* The message at position i as the receiver gets it.
Delivered(i) ==
    [id |-> queue[i].id, receipt |-> Counted(queue[i].receives),
     body |-> queue[i].body]

\* A fault of the poll: the first message is taken without looking whether
\* there is one.
PollUnchecked(messages) ==
    IF messages = <<>>
    THEN [worker |-> IdleWorker, error |-> Some("IndexError"), result |-> None]
    ELSE [worker |-> [pc |-> "received", msg |-> Some(messages[1])],
          error |-> None, result |-> None]

\* Lines 78-82: with no message the handler returns its idle result,
\* otherwise it goes on with messages[0].
poll(messages) ==
    IF messages = <<>>
    THEN [worker |-> IdleWorker, error |-> None,
          result |-> Some("No messages in queue.")]
    ELSE [worker |-> [pc |-> "received", msg |-> Some(messages[1])],
          error |-> None, result |-> None]

\* Lines 77-82: receive_message with no wait.  The messages it returns
\* become invisible to other receivers.  The call is inside no try: when it
\* raises, the handler raises, having received nothing.
ReceiveAmong(w, deliveries) ==
    /\ workers[w].pc = "idle"
    /\ \/ \E d \in deliveries :
          \E out \in {poll([j \in DOMAIN d |-> Delivered(d[j])])} :
             /\ queue' = [i \in DOMAIN queue |->
                             IF \E j \in DOMAIN d : d[j] = i
                             THEN [queue[i] EXCEPT
                                      !.inflight = TRUE,
                                      !.receives = Counted(@)]
                             ELSE queue[i]]
             /\ workers' = [workers EXCEPT ![w] = out.worker]
             /\ exec' = IF out.worker = IdleWorker
                        THEN Some([worker |-> w, step |-> "idle",
                                   msg |-> None, response |-> None,
                                   result |-> out.result,
                                   done |-> Processed(out.error,
                                                      <<"receive_message">>,
                                                      <<>>, <<>>, <<>>, None)])
                        ELSE None
       \/ /\ exec' = Some([worker |-> w, step |-> "receive", msg |-> None,
                            response |-> None, result |-> None,
                            done |-> Processed(Some("ReceiveError"),
                                               <<"receive_message">>,
                                               <<>>, <<>>, <<>>, None)])
          /\ UNCHANGED <<queue, workers>>
    /\ UNCHANGED <<prefTable, lexAttrs, nextId, sessionSent, turn, notified,
                   deleted>>

Receive(w) == ReceiveAmong(w, Deliveries)

\* Lines 93-100: batch_get_item is reached when the search returned enough
\* ids to sample from.
ReachesCatalog(response) ==
    /\ query_opensearch_ids(response).error = None
    /\ Len(query_opensearch_ids(response).ids) >= SampleSize

\* Lines 83-121: parse, search, sample, batch-get, compose and send.  The
\* Catalog Store's content and the outcomes of batch_get_item and send_email
\* are drawn for the calls the execution reaches.
Process(w, hitLists, catalogs) ==
    /\ workers[w].pc = "received"
    /\ \E response \in Responses(hitLists) :
       \E catalog \in (IF ReachesCatalog(response) THEN catalogs ELSE {{}}) :
       \E catalogOk \in (IF ReachesCatalog(response) THEN BOOLEAN
                          ELSE {TRUE}) :
       \E sendOk \in (IF ReachesCatalog(response) /\ catalogOk THEN BOOLEAN
                       ELSE {TRUE}) :
       \E p \in (IF Len(query_opensearch_ids(response).ids) >= SampleSize
                 THEN Draws(Len(query_opensearch_ids(response).ids))
                 ELSE {<<>>}) :
       \E done \in {process(Val(workers[w].msg).body, response, p, catalog,
                            catalogOk, sendOk)} :
            /\ workers' = [workers EXCEPT ![w] = AfterProcess(w, done)]
            /\ notified' = IF IsSome(done.mail)
                           THEN notified \cup {Val(workers[w].msg).id}
                           ELSE notified
            /\ exec' = Some([worker |-> w, step |-> "process",
                             msg |-> Some(Handle(Val(workers[w].msg))),
                             response |-> Some(response),
                             catalog |-> catalog,
                             catalogOk |-> catalogOk,
                             sendOk |-> sendOk,
                             result |-> None,
                             done |-> done])
    /\ UNCHANGED <<prefTable, lexAttrs, queue, nextId, sessionSent, turn,
                   deleted>>

\* Lines 124-126: what the execution returns after delete_message, which
\* is called inside no try: when it raises, the handler raises.
Deleted(m, deleteOk) ==
    IF deleteOk
    THEN [error |-> None,
          result |-> Some("Sent recommendations to "
                          \o Strip(IF Truthy(TEST_RECIPIENT)
                                   THEN Val(TEST_RECIPIENT)
                                   ELSE m.body.email)
                          \o ".")]
    ELSE [error |-> Some("DeleteError"), result |-> None]

\* Line 124: delete_message with the receipt handle of the message received.
\* When the call fails the message stays in the queue, in flight.  With a
\* handle that is no longer the latest the request succeeds and the message
\* may or may not be deleted.
Delete(w) ==
    /\ workers[w].pc = "sent"
    /\ \E m \in {Val(workers[w].msg)} :
       \E deleteOk \in BOOLEAN :
       \E out \in {Deleted(m, deleteOk)} :
        /\ \/ /\ deleteOk
              /\ InQueue(m.id)
              /\ queue' = Without(queue, m.id)
              /\ deleted' = deleted \cup {m.id}
           \/ /\ deleteOk
              /\ Stale(m)
              /\ UNCHANGED <<queue, deleted>>
           \/ /\ ~deleteOk
              /\ UNCHANGED <<queue, deleted>>
        /\ workers' = [workers EXCEPT ![w] = IdleWorker]
        /\ exec' = Some([worker |-> w, step |-> "delete",
                         msg |-> Some(Handle(m)),
                         response |-> None,
                         deleteOk |-> deleteOk,
                         result |-> out.result,
                         done |-> Processed(out.error, <<"delete_message">>,
                                            <<>>, <<>>, <<>>, None)])
    /\ UNCHANGED <<prefTable, lexAttrs, nextId, sessionSent, turn, notified>>

\* The execution is killed between two calls (a timeout, a lost container).
Crash(w) ==
    /\ workers[w].pc \in {"received", "sent"}
    /\ workers' = [workers EXCEPT ![w] = IdleWorker]
    /\ exec' = None
    /\ UNCHANGED <<prefTable, lexAttrs, queue, nextId, sessionSent, turn,
                   notified, deleted>>

\* The visibility timeout of a received message runs out: it can be
\* received again.
Redeliver ==
    \E i \in DOMAIN queue :
        /\ queue[i].inflight
        /\ queue' = [queue EXCEPT ![i].inflight = FALSE]
        /\ exec' = None
        /\ UNCHANGED <<prefTable, lexAttrs, nextId, sessionSent, turn,
                       workers, notified, deleted>>

Next ==
    \/ DialogTurn(Events)
    \/ NewSession

Spec == Init /\ [][Next]_vars

\* The state after n sessions have each submitted the request of ValidSlots:
\* n messages wait in the queue.
\* Session i looks up what session i - 1 stored.
FeedEvent == Received(DiningEvent(ValidSlots), EmptyAttrs)

RECURSIVE FeedOutcome(_)
FeedPref(i) == IF i <= 1 THEN None ELSE FeedOutcome(i - 1).item

FeedOutcome(i) == lambda_handler(FeedEvent, FeedPref(i), RequestId(i), TRUE)

Fed(n) ==
    /\ prefTable = IF n = 0 THEN [s \in Sessions |-> None]
                   ELSE [s \in Sessions |-> FeedOutcome(n).item]
    /\ lexAttrs = IF n = 0 THEN EmptyAttrs
                  ELSE Val(FeedOutcome(n).resp).sessionAttributes
    /\ queue = [i \in 1..n |-> [id |-> i, body |-> Val(FeedOutcome(i).sent),
                                inflight |-> FALSE, receives |-> 0]]
    /\ nextId = n
    /\ sessionSent = IF n = 0 THEN 0 ELSE 1
    /\ turn = IF n = 0 THEN None
              ELSE Some(TurnRecord(FeedEvent, TRUE, FeedPref(n), TRUE, TRUE,
                                   FeedOutcome(n),
                                   [i \in 1..(n - 1) |->
                                       [id |-> i,
                                        body |-> Val(FeedOutcome(i).sent),
                                        inflight |-> FALSE, receives |-> 0]],
                                   [s \in Sessions |-> FeedPref(n)]))
    /\ workers = [w \in Workers |-> IdleWorker]
    /\ notified = {}
    /\ deleted = {}
    /\ exec = None

\* The most DiningRequests waiting when the workers start.
MaxQueued == 1

WorkerInit == \E n \in 0..MaxQueued : Fed(n)

\* Concurrent worker executions with crashes and redelivery.
FewHitLists == {<<"a", "b">>, <<"a", "b", "c">>}
FewCatalogs == {{"a", "b", "c"}, {"a"}}

WorkerNext ==
    \/ \E w \in Workers : Receive(w)
    \/ \E w \in Workers : Process(w, FewHitLists, FewCatalogs)
    \/ \E w \in Workers : Delete(w)
    \/ \E w \in Workers : Crash(w)
    \/ Redeliver

WorkerSpec == WorkerInit /\ [][WorkerNext]_vars

\* One worker against every search response and catalog content.
HitLists ==
    {<<>>, <<"a", "b">>, <<"a", "", "b">>, <<"a", "b", "c">>,
     <<"a", "a", "b">>, <<"a", "", "b", "c">>, <<"a", "b", "c", "d">>}
Catalogs == {{}, {"a"}, {"a", "c"}, {"a", "b", "c", "d"}}

SamplingNext ==
    \/ Receive("w1")
    \/ Process("w1", HitLists, Catalogs)
    \/ Delete("w1")
    \/ Redeliver

SamplingSpec == Fed(1) /\ [][SamplingNext]_vars

\* One worker polling a queue that holds several requests.
PollNext ==
    \/ Receive("w1")
    \/ Process("w1", FewHitLists, FewCatalogs)
    \/ Delete("w1")
    \/ Crash("w1")
    \/ Redeliver

PollSpec == Fed(MaxSends) /\ [][PollNext]_vars

\* Concurrent executions on a queue that holds one request per worker, with
\* redelivery while an execution still holds the message.
ConcurrentNext ==
    \/ \E w \in Workers : Receive(w)
    \/ \E w \in Workers : Process(w, {<<"a", "b", "c">>}, {{"a", "b", "c"}})
    \/ \E w \in Workers : Delete(w)
    \/ Redeliver

ConcurrentSpec == Fed(Cardinality(Workers)) /\ [][ConcurrentNext]_vars

\* Concurrent executions on one request whose sampled ids the Catalog Store
\* holds none, some or all of, with redelivery while an execution still
\* holds the message: the receipt handle of the first can go stale before
\* it calls delete_message.
PartialCatalogs == {{}, {"a"}, {"a", "c"}, {"a", "b", "c"}}

PartialNext ==
    \/ \E w \in Workers : Receive(w)
    \/ \E w \in Workers : Process(w, {<<"a", "b", "c">>}, PartialCatalogs)
    \/ \E w \in Workers : Delete(w)
    \/ Redeliver

PartialSpec == Fed(1) /\ [][PartialNext]_vars

\* The worker runs again and again (a scheduled trigger), one execution
\* after the other, on a queue that redelivers a message as long as it is
\* not deleted; every message that becomes visible is received.  The
\* Search Index, the mail service and the executions themselves fail only
\* finitely often: a search or send failure or a crash happens only to one
\* of the first MaxReceives - 1 deliveries of a message.  The Catalog Store
\* and the delete are not so restricted.
Redeliverable(w) ==
    /\ IsSome(workers[w].msg)
    /\ Val(workers[w].msg).receipt < MaxReceives

LiveReceive(w) == ReceiveAmong(w, Redeliveries)

LiveProcess(w) ==
    /\ Process(w, FewHitLists, FewCatalogs)
    /\ Val(exec').done.error
          \in {Some("SearchUnavailable"), Some("InsufficientCandidates"),
               Some("NotificationSendError")}
       => Redeliverable(w)

LiveCrash(w) == Redeliverable(w) /\ Crash(w)

LiveNext ==
    \/ LiveReceive("w1")
    \/ LiveProcess("w1")
    \/ Delete("w1")
    \/ LiveCrash("w1")
    \/ Redeliver

LiveSpec ==
    /\ Fed(1)
    /\ [][LiveNext]_vars
    /\ WF_vars(LiveReceive("w1") /\ workers'["w1"].pc = "received")
    /\ WF_vars(LiveProcess("w1"))
    /\ WF_vars(Delete("w1"))
    /\ WF_vars(Redeliver)

\* The dialog continued by the NLU layer: after a turn answered Delegate it
\* may invoke the handler again with the slots and sessionAttributes that
\* turn returned, on either code hook.
Continuations ==
    IF /\ IsSome(turn)
       /\ IsSome(Val(turn).out.resp)
       /\ Val(Val(turn).out.resp).type = "Delegate"
    THEN {MkEvent(Val(turn).event.intent, source, Val(turn).event.sessionId,
                  Val(Val(turn).out.resp).intent.slots) :
            source \in {"DialogCodeHook", "FulfillmentCodeHook"}}
    ELSE {}

\* The events that open or resume a dialog: location and cuisine unset,
\* valid or invalid, the dining time unset or given, and the party size and
\* email valid or one of them invalid.
ContinuedEvents ==
    {DiningEvent(MkSlots(l, c, t, r[1], r[2])) :
        l \in {None, make_slot("Manhattan")},
        c \in {None, make_slot("Japanese"), make_slot("french")},
        t \in {None, make_slot("7pm")},
        r \in {<<make_slot("4"), make_slot("a@b.com")>>,
               <<make_slot("²"), make_slot("a@b.com")>>,
               <<make_slot("4"), make_slot("bad")>>}}

\* Sessions of a user whose preference is stored, with continued turns; one
\* more DiningRequest can be submitted.
ContinuedNext ==
    \/ DialogTurn(ContinuedEvents)
    \/ DialogTurn(Continuations)
    \/ NewSession

ContinuedSpec == Fed(MaxSends - 1) /\ [][ContinuedNext]_vars

\* The same sessions with a second request, whose location and cuisine are
\* written padded and in other letter case, so that the stored preference
\* changes.
ReuseEvents ==
    ContinuedEvents
    \cup {DiningEvent([ValidSlots EXCEPT !["Location"] = make_slot("NEW YORK "),
                                         !["Cuisine"] = make_slot("Thai")])}

ReuseNext ==
    \/ DialogTurn(ReuseEvents)
    \/ DialogTurn(Continuations)
    \/ NewSession

ReuseSpec == Fed(MaxSends - 1) /\ [][ReuseNext]_vars

(***************************************************************************)
(* Properties of the dialog turn (checked under Spec)                      *)
(***************************************************************************)
\* The last turn taken, and the text of a slot as it was received.
LastTurn == Val(turn)

DiningTurn ==
    IsSome(turn) /\ LastTurn.event.intent = "DiningSuggestionsIntent"

SlotText(name) == OrEmpty(slot_value(LastTurn.event.slots, name))

TrimmedText(name) == Strip(SlotText(name))

\* The rules of the slots, on a trimmed text.
IsValidLocation(v) ==
    Contains(Lower(v), "manhattan") \/ Contains(Lower(v), "new york")

IsAllowedCuisine(v) == Lower(v) \in ALLOWED_CUISINES

IsPartySizeInRange(v) == IntParses(v) /\ IntOf(v) \in 1..20

IsValidEmail(v) == EmailMatches(v)

\* All five required slots are present and valid.
CompleteRequest ==
    /\ TrimmedText("Location") # "" /\ IsValidLocation(TrimmedText("Location"))
    /\ TrimmedText("Cuisine") # "" /\ IsAllowedCuisine(TrimmedText("Cuisine"))
    /\ TrimmedText("DiningTime") # ""
    /\ TrimmedText("NumberOfPeople") # ""
    /\ IsPartySizeInRange(TrimmedText("NumberOfPeople"))
    /\ TrimmedText("Email") # "" /\ IsValidEmail(TrimmedText("Email"))

EnteredEnqueued == LastTurn.event.sessionAttributes.enqueued = Some("1")

\* The turn ended in Close with the confirmation message.
ConfirmedClose ==
    /\ IsSome(LastTurn.out.resp)
    /\ Val(LastTurn.out.resp).type = "Close"
    /\ Val(LastTurn.out.resp).message = Some(MsgConfirm)

\* The DiningRequest m carries the values of the last turn.
CarriesTurnValues(m) ==
    /\ m.body.location = TrimmedText("Location")
    /\ m.body.cuisine = Lower(TrimmedText("Cuisine"))
    /\ m.body.diningTime = TrimmedText("DiningTime")
    /\ m.body.partySize = TrimmedText("NumberOfPeople")
    /\ m.body.email = TrimmedText("Email")

\* The last turn put nothing on the queue / exactly one DiningRequest, which
\* carries its values under a requestId no earlier request has.
SubmittedNothing ==
    /\ queue = LastTurn.before.queue
    /\ LastTurn.out.sent = None

SubmittedOne ==
    /\ Len(queue) = Len(LastTurn.before.queue) + 1
    /\ SubSeq(queue, 1, Len(queue) - 1) = LastTurn.before.queue
    /\ CarriesTurnValues(queue[Len(queue)])
    /\ queue[Len(queue)].body.requestId # ""
    /\ \A i \in 1..(Len(queue) - 1) :
          queue[i].body.requestId # queue[Len(queue)].body.requestId

\* C2 (as stated): every DiningSuggestionsIntent turn that ends in Close with
\* the confirmation message has produced exactly one DiningRequest carrying
\* its location, lowercased cuisine, dining time, party size and email.
C2_OnePerConfirmedTurn ==
    (DiningTurn /\ ConfirmedClose) => SubmittedOne

\* C2 (amended): a DiningSuggestionsIntent turn that ends in Close with the
\* confirmation message has produced exactly one DiningRequest carrying its
\* values when it was invoked without enqueued = "1", and none when it was
\* invoked with enqueued = "1".
C2_OnePerUnguardedTurn ==
    (DiningTurn /\ ConfirmedClose) =>
        IF EnteredEnqueued THEN SubmittedNothing ELSE SubmittedOne

\* A confirmed turn that submitted its request, after an earlier submission.
C2_Witness ==
    /\ DiningTurn /\ ConfirmedClose /\ ~EnteredEnqueued
    /\ SubmittedOne
    /\ Len(queue) = 2

\* C3: a DiningSuggestionsIntent turn invoked with enqueued = "1" and all
\* five required slots present and valid returns Close with the confirmation
\* message, submits nothing to the queue and writes no preference; the
\* attributes it returns still hold enqueued = "1", so invoking it again is
\* the same case and the two calls together submit nothing.
C3_GuardedTurnIdempotent ==
    (DiningTurn /\ EnteredEnqueued /\ CompleteRequest) =>
        /\ ConfirmedClose
        /\ Val(LastTurn.out.resp).sessionAttributes.enqueued = Some("1")
        /\ SubmittedNothing
        /\ LastTurn.out.item = None
        /\ prefTable = LastTurn.before.prefTable
        /\ \A i \in DOMAIN LastTurn.out.calls :
              LastTurn.out.calls[i] \notin {"send_message", "put_item"}

\* The guarded turn was taken and returned the attributes it was given: the
\* next invocation with them is the second call of the claim.
C3_Witness ==
    /\ DiningTurn /\ EnteredEnqueued /\ CompleteRequest
    /\ ConfirmedClose
    /\ lexAttrs = LastTurn.event.sessionAttributes
    /\ queue = LastTurn.before.queue

\* C4: over the turns of one session, each receiving the sessionAttributes
\* the previous one returned, at most one DiningRequest is submitted.
C4_AtMostOnePerSession == sessionSent <= 1

\* A session that has submitted its request and then took another turn with
\* a complete request for other values.
C4_Witness ==
    /\ sessionSent = 1
    /\ DiningTurn /\ CompleteRequest /\ EnteredEnqueued
    /\ \A i \in DOMAIN queue : ~CarriesTurnValues(queue[i])

\* C5: a DiningSuggestionsIntent turn with all five required slots present and
\* valid, enqueued unset and nothing pre-filled, whose send_message succeeds,
\* returns Close with the confirmation message and sessionAttributes with
\* enqueued = "1", and submits exactly one DiningRequest: its cuisine the
\* trimmed slot value in lower case, its other fields the trimmed slot
\* values, its requestId non-empty.
C5_FulfillingTurn ==
    (/\ DiningTurn /\ CompleteRequest
     /\ LastTurn.event.sessionAttributes.enqueued = None
     /\ LastTurn.sendOk) =>
        /\ LastTurn.out.filled = {}
        /\ ConfirmedClose
        /\ Val(LastTurn.out.resp).sessionAttributes.enqueued = Some("1")
        /\ lexAttrs.enqueued = Some("1")
        /\ SubmittedOne
        /\ LastTurn.out.sent = Some(queue[Len(queue)].body)

\* The fulfilling turn on slot values that need the trimming and the
\* lowercasing.
C5_Witness ==
    /\ DiningTurn /\ CompleteRequest
    /\ LastTurn.event.sessionAttributes.enqueued = None
    /\ LastTurn.sendOk
    /\ SlotText("Cuisine") = " Japanese "
    /\ queue # <<>>
    /\ queue[Len(queue)].body.cuisine = "japanese"

\* What the preference lookup of the last turn returned for a field, and
\* whether the turn pre-fills a slot from it.
StoredValue(field) ==
    IF IsSome(LastTurn.pref) THEN Val(LastTurn.pref)[field] ELSE ""

PrefillsFrom(name, field) == SlotText(name) = "" /\ StoredValue(field) # ""

NothingPrefilled ==
    /\ ~PrefillsFrom("Location", "lastLocation")
    /\ ~PrefillsFrom("Cuisine", "lastCuisine")

\* The turn answered with ElicitSlot for the slot.
Elicits(name) ==
    /\ IsSome(LastTurn.out.resp)
    /\ Val(LastTurn.out.resp).type = "ElicitSlot"
    /\ Val(LastTurn.out.resp).slotToElicit = Some(name)

\* C6 (as stated): every DiningSuggestionsIntent turn whose cuisine slot
\* holds a value outside the allowed set, whatever the other slots hold,
\* returns ElicitSlot for the cuisine and submits nothing.
C6_InvalidCuisineElicited ==
    (DiningTurn /\ SlotText("Cuisine") # ""
                /\ ~IsAllowedCuisine(SlotText("Cuisine"))) =>
        /\ Elicits("Cuisine")
        /\ SubmittedNothing

\* C6 (amended): every DiningSuggestionsIntent turn whose trimmed cuisine
\* value is non-empty and, in lower case, outside the allowed set submits
\* nothing, whatever the other slots hold; it returns Delegate with the reuse
\* notice when the turn pre-filled the location, otherwise ElicitSlot for the
\* location when the location is non-empty and invalid, otherwise ElicitSlot
\* for the cuisine with the message listing the allowed cuisines.
C6_InvalidCuisineNeverSubmitted ==
    (DiningTurn /\ TrimmedText("Cuisine") # ""
                /\ ~IsAllowedCuisine(TrimmedText("Cuisine"))) =>
        /\ SubmittedNothing
        /\ IsSome(LastTurn.out.resp)
        /\ IF ~NothingPrefilled
           THEN /\ Val(LastTurn.out.resp).type = "Delegate"
                /\ Val(LastTurn.out.resp).message
                       = Val(LastTurn.out.resp).sessionAttributes.reused_notice
                /\ IsSome(Val(LastTurn.out.resp).message)
           ELSE IF TrimmedText("Location") # ""
                   /\ ~IsValidLocation(TrimmedText("Location"))
           THEN Elicits("Location")
           ELSE /\ Elicits("Cuisine")
                /\ Val(LastTurn.out.resp).message = Some(MsgCuisine)

\* An invalid cuisine rejected while every other slot holds a valid value.
C6_Witness ==
    /\ DiningTurn /\ Elicits("Cuisine")
    /\ SlotText("Cuisine") = "french"
    /\ TrimmedText("Location") # "" /\ TrimmedText("DiningTime") # ""
    /\ TrimmedText("NumberOfPeople") # "" /\ TrimmedText("Email") # ""
    /\ SubmittedNothing

\* C7: in a DiningSuggestionsIntent turn that reaches the party size check
\* (nothing pre-filled, location and cuisine empty or valid), a party size
\* that is non-empty and not an integer in 1..20 gets ElicitSlot for the
\* party size, and an integer in 1..20 never does.
C7_PartySizeElicited ==
    (/\ DiningTurn /\ NothingPrefilled
     /\ TrimmedText("Location") # "" => IsValidLocation(TrimmedText("Location"))
     /\ TrimmedText("Cuisine") # "" => IsAllowedCuisine(TrimmedText("Cuisine"))
     /\ TrimmedText("NumberOfPeople") # "") =>
        (Elicits("NumberOfPeople")
            <=> ~IsPartySizeInRange(TrimmedText("NumberOfPeople")))

\* The turn on a party size that isdigit() accepts and int() rejects ended
\* in the exception, with no response.
C7_Witness ==
    /\ DiningTurn /\ NothingPrefilled
    /\ SlotText("NumberOfPeople") = "²"
    /\ IsValidLocation(TrimmedText("Location"))
    /\ LastTurn.out.resp = None
    /\ LastTurn.out.error = Some("ValueError")

\* C8: in a DiningSuggestionsIntent turn on DialogCodeHook whose lookup
\* returned the session's stored preference, each of Location / Cuisine that
\* is unset and has a stored value comes back holding the stored value, every
\* other slot comes back as received, and when a slot was filled the turn
\* returns Delegate with the message naming exactly the filled fields and
\* their values, keeps that message in sessionAttributes.reused_notice, and
\* submits nothing.
ExpectedNotice ==
    "Reusing your last preferences ("
    \o (IF PrefillsFrom("Location", "lastLocation")
        THEN "location: " \o StoredValue("lastLocation") ELSE "")
    \o (IF PrefillsFrom("Location", "lastLocation")
           /\ PrefillsFrom("Cuisine", "lastCuisine")
        THEN ", " ELSE "")
    \o (IF PrefillsFrom("Cuisine", "lastCuisine")
        THEN "cuisine: " \o StoredValue("lastCuisine") ELSE "")
    \o ")."

ReturnedSlots == Val(LastTurn.out.resp).intent.slots

SlotAfterPrefill(name, field) ==
    IF PrefillsFrom(name, field)
    THEN /\ IsSome(LastTurn.out.resp)
         /\ slot_value(ReturnedSlots, name) = Some(StoredValue(field))
    ELSE IsSome(LastTurn.out.resp) =>
            ReturnedSlots[name] = LastTurn.event.slots[name]

C8_PreferencePrefill ==
    (/\ DiningTurn
     /\ LastTurn.event.invocationSource = "DialogCodeHook"
     /\ IsSome(LastTurn.pref)) =>
        /\ SlotAfterPrefill("Location", "lastLocation")
        /\ SlotAfterPrefill("Cuisine", "lastCuisine")
        /\ IsSome(LastTurn.out.resp) =>
              \A n \in {"DiningTime", "NumberOfPeople", "Email"} :
                  ReturnedSlots[n] = LastTurn.event.slots[n]
        /\ ~NothingPrefilled =>
              /\ Val(LastTurn.out.resp).type = "Delegate"
              /\ Val(LastTurn.out.resp).message = Some(ExpectedNotice)
              /\ Val(LastTurn.out.resp).sessionAttributes.reused_notice
                     = Some(ExpectedNotice)
              /\ lexAttrs.reused_notice = Some(ExpectedNotice)
              /\ SubmittedNothing

\* The location filled from the store while the cuisine, already set, is
\* kept.
C8_Witness ==
    /\ DiningTurn /\ IsSome(LastTurn.pref)
    /\ PrefillsFrom("Location", "lastLocation")
    /\ SlotText("Cuisine") = "french"
    /\ IsSome(LastTurn.out.resp)
    /\ slot_value(ReturnedSlots, "Location") = Some("manhattan")
    /\ slot_value(ReturnedSlots, "Cuisine") = Some("french")
    /\ Val(LastTurn.out.resp).message
           = Some("Reusing your last preferences (location: manhattan).")

(***************************************************************************)
(* Properties of the worker (under WorkerSpec, SamplingSpec, PartialSpec)   *)
(***************************************************************************)
\* The step an execution has just taken.
LastStep == Val(exec)

ProcessStep == IsSome(exec) /\ LastStep.step = "process"

\* The candidate ids of the search response the step received.
Candidates == SelectSeq(Val(LastStep.response).hits, LAMBDA h : h # "")

SearchReturned == ProcessStep /\ Val(LastStep.response).status < 300

\* C1: every message removed from the queue has a successful notification
\* send, and the step in which a send fails leaves the queue as it was.
C1_SendThenDelete ==
    /\ [](deleted \subseteq notified)
    /\ [][(/\ IsSome(exec')
           /\ Val(exec').step = "process"
           /\ Val(exec').done.error = Some("NotificationSendError"))
          => (queue' = queue /\ deleted' = deleted)]_vars

\* A message deleted on its redelivery, after an execution that did not
\* delete it.
C1_Witness ==
    /\ IsSome(exec) /\ LastStep.step = "delete"
    /\ Val(LastStep.msg).receipt = 2
    /\ Val(LastStep.msg).id \in deleted
    /\ ~InQueue(Val(LastStep.msg).id)

\* C9: an execution whose search returns fewer than 3 candidate ids fails
\* with InsufficientCandidates without sending a notification or deleting:
\* the message is still in the queue and the execution has ended.
C9_InsufficientCandidates ==
    (SearchReturned /\ Len(Candidates) < 3) =>
        /\ LastStep.done.error = Some("InsufficientCandidates")
        /\ LastStep.done.mail = None
        /\ LastStep.done.calls = <<"search">>
        /\ InQueue(Val(LastStep.msg).id)
        /\ Val(LastStep.msg).id \notin deleted
        /\ workers[LastStep.worker] = IdleWorker

\* Two candidate ids returned, one hit without an id among them.
C9_Witness ==
    /\ SearchReturned
    /\ Len(Val(LastStep.response).hits) = 3
    /\ Len(Candidates) = 2
    /\ LastStep.done.error = Some("InsufficientCandidates")
    /\ InQueue(Val(LastStep.msg).id)

\* C10: an execution whose search returns 3 or more candidate ids does not
\* fail with InsufficientCandidates, and the ids it hands to the Catalog
\* Store are exactly 3, pairwise distinct, all among the candidates.
C10_ThreeDistinctChosen ==
    (SearchReturned /\ Len(Candidates) >= 3) =>
        /\ LastStep.done.error # Some("InsufficientCandidates")
        /\ Len(LastStep.done.chosen) = 3
        /\ \A i \in 1..3 : \A j \in 1..3 :
              i # j => LastStep.done.chosen[i] # LastStep.done.chosen[j]
        /\ \A i \in 1..3 :
              \E k \in DOMAIN Candidates : Candidates[k] = LastStep.done.chosen[i]

\* Three candidates, one id twice among them: the ids handed to the Catalog
\* Store repeat it.
C10_Witness ==
    /\ SearchReturned
    /\ Candidates = <<"a", "a", "b">>
    /\ Len(LastStep.done.chosen) = 3
    /\ \E i \in 1..3 : \E j \in 1..3 :
          i # j /\ LastStep.done.chosen[i] = LastStep.done.chosen[j]

\* The ids of the messages a step delivers to a receiver.
ReceivedNow ==
    {m.id : m \in {x \in Range(queue') :
                     \E y \in Range(queue) :
                        y.id = x.id /\ x.receives > y.receives}}

IdleStep == IsSome(exec) /\ LastStep.step = "idle"

\* C11: an execution receives at most one message and keeps to it until it
\* ends; an execution that receives none returns the idle result having
\* made no call but receive_message (no search, no catalog lookup, no send,
\* no delete), and leaves queue, notified and deleted as they were.
C11_PollOnce ==
    /\ [](IdleStep =>
            /\ LastStep.result = Some("No messages in queue.")
            /\ LastStep.done.error = None
            /\ LastStep.done.calls = <<"receive_message">>
            /\ LastStep.done.mail = None
            /\ workers[LastStep.worker] = IdleWorker)
    /\ [][/\ Cardinality(ReceivedNow) <= 1
          /\ \A w \in Workers :
                /\ (workers[w].pc = "idle" /\ workers'[w].pc # "idle") =>
                      /\ workers'[w].pc = "received"
                      /\ ReceivedNow = {Val(workers'[w].msg).id}
                /\ workers[w].pc # "idle" =>
                      workers'[w].msg \in {workers[w].msg, None}
          /\ (IsSome(exec') /\ Val(exec').step = "idle") =>
                (queue' = queue /\ notified' = notified /\ deleted' = deleted)
         ]_vars

\* The idle result on the empty queue, after the requests were served.
C11_Witness ==
    /\ IdleStep
    /\ queue = <<>>
    /\ deleted # {}
    /\ LastStep.result = Some("No messages in queue.")

(***************************************************************************)
(* Further properties of the dialog turn (checked under Spec)              *)
(***************************************************************************)
\* C12: every dialog turn, whatever the intent, the slot values and the
\* failures of the Preference Store and of the Request Queue, returns
\* Close, ElicitSlot or Delegate; none ends in an exception.
C12_AlwaysConversational ==
    IsSome(turn) =>
        /\ LastTurn.out.error = None
        /\ IsSome(LastTurn.out.resp)
        /\ Val(LastTurn.out.resp).type \in {"Close", "ElicitSlot", "Delegate"}

\* The fulfilling turn whose send_message failed ended in the exception,
\* with no response.
C12_Witness ==
    /\ DiningTurn /\ CompleteRequest /\ ~EnteredEnqueued
    /\ ~LastTurn.sendOk
    /\ LastTurn.out.resp = None
    /\ LastTurn.out.error = Some("QueueSubmissionError")

\* The positions of a call among the calls of the last turn.
CallAt(name) == {i \in DOMAIN LastTurn.out.calls : LastTurn.out.calls[i] = name}

\* C13: in every turn that attempts the queue submission the attribute
\* enqueued was set first, the preference write (made whenever the event
\* has a session id) came second, and the submission is the last effect;
\* the write has reached the Preference Store also when the submission
\* then fails.
C13_EffectsOrdered ==
    (IsSome(turn) /\ CallAt("send_message") # {}) =>
        /\ Cardinality(CallAt("send_message")) = 1
        /\ Cardinality(CallAt("set_enqueued")) = 1
        /\ \A s \in CallAt("send_message") :
              /\ s = Len(LastTurn.out.calls)
              /\ \A e \in CallAt("set_enqueued") : e < s
              /\ \A p \in CallAt("put_item") :
                    /\ p < s
                    /\ \A e \in CallAt("set_enqueued") : e < p
        /\ Truthy(LastTurn.event.sessionId) =>
              /\ Cardinality(CallAt("put_item")) = 1
              /\ IsSome(LastTurn.out.item)
              /\ LastTurn.saveOk =>
                    prefTable[Val(LastTurn.event.sessionId)] = LastTurn.out.item

\* The fulfilling turn made its three effects, and the preference is stored
\* although the submission failed.
C13_Witness ==
    /\ DiningTurn /\ ~LastTurn.sendOk /\ LastTurn.saveOk
    /\ LastTurn.out.calls
          = <<"get_item", "set_enqueued", "put_item", "send_message">>
    /\ LastTurn.before.prefTable["web-session"] = None
    /\ prefTable["web-session"] # None

\* The last turn is the fulfilling turn and its send_message failed.
SubmissionFailed ==
    /\ DiningTurn /\ CompleteRequest /\ ~EnteredEnqueued
    /\ ~LastTurn.sendOk

\* What a failed submission leaves behind in every case: the turn ended in
\* the exception after enqueued was set and the preference written, and
\* nothing was put on the queue.
FailedAfterEffects ==
    /\ LastTurn.out.resp = None
    /\ LastTurn.out.error = Some("QueueSubmissionError")
    /\ CallAt("set_enqueued") # {}
    /\ \A e \in CallAt("set_enqueued") : \A s \in CallAt("send_message") : e < s
    /\ (Truthy(LastTurn.event.sessionId) /\ LastTurn.saveOk) =>
          /\ IsSome(LastTurn.out.item)
          /\ prefTable[Val(LastTurn.event.sessionId)] = LastTurn.out.item
    /\ SubmittedNothing

\* The sessionAttributes the session holds carry enqueued = "1" although
\* the session has submitted no request.
FlagWithoutRequest == lexAttrs.enqueued = Some("1") /\ sessionSent = 0

\* C14: when the submission fails in the fulfilling turn, the turn ends in
\* the exception of send_message after enqueued was set to "1" and the
\* preference written, and nothing is on the queue for it.  The flag is
\* written into the sessionAttributes dict of the event itself unless that
\* dict was empty, so the session can be left with enqueued = "1" (it holds
\* either the attributes it sent or that dict); a session left so submits
\* nothing in its later turns.
C14_FailedSubmissionLeavesFlag ==
    /\ SubmissionFailed =>
          /\ FailedAfterEffects
          /\ LastTurn.left =
                IF LastTurn.event.sessionAttributes = EmptyAttrs
                THEN EmptyAttrs
                ELSE [LastTurn.event.sessionAttributes
                         EXCEPT !.enqueued = Some("1")]
          /\ lexAttrs \in {LastTurn.event.sessionAttributes, LastTurn.left}
    /\ (DiningTurn /\ EnteredEnqueued /\ sessionSent = 0) =>
          /\ SubmittedNothing
          /\ FlagWithoutRequest

\* The submission failed after the preference was written, and the session
\* is left with enqueued = "1" and no request of it on the queue.
C14_Witness ==
    /\ SubmissionFailed
    /\ LastTurn.out.error = Some("QueueSubmissionError")
    /\ LastTurn.saveOk
    /\ IsSome(LastTurn.out.item)
    /\ prefTable["web-session"] = LastTurn.out.item
    /\ FlagWithoutRequest
    /\ queue = LastTurn.before.queue
    /\ \A i \in DOMAIN queue : ~CarriesTurnValues(queue[i])

\* The populated slots of the last turn that break their rule, and the first
\* of them in the order location, cuisine, party size, email.
InvalidSlots ==
    {n \in {"Location"} :
        TrimmedText(n) # "" /\ ~IsValidLocation(TrimmedText(n))}
    \cup {n \in {"Cuisine"} :
        TrimmedText(n) # "" /\ ~IsAllowedCuisine(TrimmedText(n))}
    \cup {n \in {"NumberOfPeople"} :
        TrimmedText(n) # "" /\ ~IsPartySizeInRange(TrimmedText(n))}
    \cup {n \in {"Email"} :
        TrimmedText(n) # "" /\ ~IsValidEmail(TrimmedText(n))}

ValidationOrder == <<"Location", "Cuisine", "NumberOfPeople", "Email">>

FirstInvalid ==
    ValidationOrder[CHOOSE i \in 1..4 :
                        /\ ValidationOrder[i] \in InvalidSlots
                        /\ \A j \in 1..(i - 1) :
                              ValidationOrder[j] \notin InvalidSlots]

CorrectiveMessage(n) ==
    CASE n = "Location" -> MsgLocation
      [] n = "Cuisine" -> MsgCuisine
      [] n = "NumberOfPeople" -> MsgPartySize
      [] n = "Email" -> MsgEmail

\* C15: a DiningSuggestionsIntent turn that pre-fills nothing and has an
\* invalid populated slot returns ElicitSlot for the first invalid slot in
\* the order location, cuisine, party size, email, with that slot's
\* corrective message, and returns the slots as it received them.
C15_FirstInvalidElicited ==
    (DiningTurn /\ NothingPrefilled /\ InvalidSlots # {}) =>
        /\ Elicits(FirstInvalid)
        /\ Val(LastTurn.out.resp).message = Some(CorrectiveMessage(FirstInvalid))
        /\ ReturnedSlots = LastTurn.event.slots

\* The party size is the first invalid slot and the turn ended in the
\* exception instead of eliciting it.
C15_Witness ==
    /\ DiningTurn /\ NothingPrefilled
    /\ InvalidSlots # {}
    /\ FirstInvalid = "NumberOfPeople"
    /\ LastTurn.out.resp = None
    /\ LastTurn.out.error = Some("ValueError")

\* C16: a DiningSuggestionsIntent turn on DialogCodeHook entered with
\* enqueued = "1" makes no preference lookup, pre-fills no slot and does not
\* return the Delegate with the reuse notice.
C16_NoLookupOnceEnqueued ==
    (/\ DiningTurn
     /\ LastTurn.event.invocationSource = "DialogCodeHook"
     /\ EnteredEnqueued) =>
        /\ CallAt("get_item") = {}
        /\ LastTurn.out.filled = {}
        /\ IsSome(LastTurn.out.resp) =>
              /\ ReturnedSlots = LastTurn.event.slots
              /\ ~(/\ Val(LastTurn.out.resp).type = "Delegate"
                   /\ IsSome(Val(LastTurn.out.resp).message))

\* After the session's request was submitted, a turn with the location
\* unset looked the preference up, filled the location and returned the
\* reuse notice.
C16_Witness ==
    /\ DiningTurn /\ EnteredEnqueued
    /\ sessionSent = 1
    /\ CallAt("get_item") # {}
    /\ PrefillsFrom("Location", "lastLocation")
    /\ IsSome(LastTurn.out.resp)
    /\ Val(LastTurn.out.resp).type = "Delegate"
    /\ Val(LastTurn.out.resp).message = Some(ExpectedNotice)
    /\ slot_value(ReturnedSlots, "Location") = Some("manhattan")

\* C17: a DiningSuggestionsIntent turn that pre-filled a slot from the stored
\* preference returns Delegate with the reuse notice in that turn, whatever
\* the other slots hold: it neither elicits an invalid populated slot nor
\* raises.
C17_NoticeBeforeValidation ==
    (DiningTurn /\ ~NothingPrefilled) =>
        /\ LastTurn.out.error = None
        /\ IsSome(LastTurn.out.resp)
        /\ Val(LastTurn.out.resp).type = "Delegate"
        /\ Val(LastTurn.out.resp).slotToElicit = None
        /\ Val(LastTurn.out.resp).message = Some(ExpectedNotice)
        /\ LastTurn.out.filled
              = {n \in {"Location"} : PrefillsFrom(n, "lastLocation")}
                \cup {n \in {"Cuisine"} : PrefillsFrom(n, "lastCuisine")}

\* The cuisine was pre-filled while the location received is invalid, and
\* the turn returned the notice.
C17_Witness ==
    /\ DiningTurn
    /\ PrefillsFrom("Cuisine", "lastCuisine")
    /\ "Location" \in InvalidSlots
    /\ IsSome(LastTurn.out.resp)
    /\ Val(LastTurn.out.resp).type = "Delegate"
    /\ Val(LastTurn.out.resp).message
          = Some("Reusing your last preferences (cuisine: japanese).")

\* Some required slot of the last turn is empty as received.
SomeSlotEmpty ==
    \E n \in {"Location", "Cuisine", "DiningTime", "NumberOfPeople", "Email"} :
        TrimmedText(n) = ""

\* C18: a DiningSuggestionsIntent turn whose populated slots are all valid
\* and in which a required slot is empty returns Delegate with the intent
\* InProgress; it submits nothing to the queue, writes no preference and
\* leaves the attribute enqueued as it was received.
C18_IncompleteDelegates ==
    (DiningTurn /\ InvalidSlots = {} /\ SomeSlotEmpty) =>
        /\ LastTurn.out.error = None
        /\ IsSome(LastTurn.out.resp)
        /\ Val(LastTurn.out.resp).type = "Delegate"
        /\ Val(LastTurn.out.resp).intent.state = "InProgress"
        /\ SubmittedNothing
        /\ CallAt("send_message") = {}
        /\ CallAt("put_item") = {}
        /\ LastTurn.out.item = None
        /\ prefTable = LastTurn.before.prefTable
        /\ CallAt("set_enqueued") = {}
        /\ Val(LastTurn.out.resp).sessionAttributes.enqueued
              = LastTurn.event.sessionAttributes.enqueued
        /\ lexAttrs.enqueued = LastTurn.event.sessionAttributes.enqueued

\* Only the dining time is missing from an otherwise complete, valid
\* request, and the turn delegated.
C18_Witness ==
    /\ DiningTurn
    /\ InvalidSlots = {}
    /\ TrimmedText("DiningTime") = ""
    /\ \A n \in {"Location", "Cuisine", "NumberOfPeople", "Email"} :
          TrimmedText(n) # ""
    /\ IsSome(LastTurn.out.resp)
    /\ Val(LastTurn.out.resp).type = "Delegate"
    /\ Val(LastTurn.out.resp).message = None

\* The fixed message of an intent other than DiningSuggestionsIntent.
FixedMessage(intent_name) ==
    IF intent_name = "GreetingIntent" THEN "Hi there, how can I help?"
    ELSE IF intent_name = "ThankYouIntent" THEN "You're welcome."
    ELSE "Sorry, I couldn't understand that."

\* C19: a turn whose intent is GreetingIntent, ThankYouIntent or any other
\* intent than DiningSuggestionsIntent returns Close with the fixed message
\* of the intent, returns the slots and the session attributes as received,
\* makes no call to the Preference Store or the queue, and leaves the store,
\* the queue and the session attributes unchanged.
C19_OtherIntentsClose ==
    (IsSome(turn) /\ ~DiningTurn) =>
        /\ LastTurn.out.error = None
        /\ IsSome(LastTurn.out.resp)
        /\ Val(LastTurn.out.resp).type = "Close"
        /\ Val(LastTurn.out.resp).message
              = Some(FixedMessage(LastTurn.event.intent))
        /\ Val(LastTurn.out.resp).intent.name = LastTurn.event.intent
        /\ ReturnedSlots = LastTurn.event.slots
        /\ Val(LastTurn.out.resp).sessionAttributes
              = LastTurn.event.sessionAttributes
        /\ lexAttrs = LastTurn.event.sessionAttributes
        /\ LastTurn.out.calls = <<>>
        /\ LastTurn.out.item = None
        /\ LastTurn.out.filled = {}
        /\ prefTable = LastTurn.before.prefTable
        /\ SubmittedNothing

\* An intent that is none of the three arrived with filled slots in a
\* session that already submitted its request and has a stored preference,
\* and the turn closed with the fallback message.
C19_Witness ==
    /\ IsSome(turn)
    /\ LastTurn.event.intent
          \notin {"GreetingIntent", "ThankYouIntent", "DiningSuggestionsIntent"}
    /\ EnteredEnqueued
    /\ TrimmedText("Location") # ""
    /\ \E s \in DOMAIN prefTable : prefTable[s] # None
    /\ IsSome(LastTurn.out.resp)
    /\ Val(LastTurn.out.resp).type = "Close"
    /\ Val(LastTurn.out.resp).message
          = Some("Sorry, I couldn't understand that.")

\* The last turn reached get_item and the call failed.
GetFailed ==
    /\ LastTurn.event.invocationSource = "DialogCodeHook"
    /\ LastTurn.event.sessionId # None
    /\ LastTurn.event.intent = "DiningSuggestionsIntent"
    /\ ~LastTurn.getOk

\* What the last turn does when the session has no stored preference, with
\* the request id the turn drew.
WithoutStoredPreference ==
    lambda_handler(LastTurn.event,
                   get_prefs([s \in Sessions |-> None],
                             Val(LastTurn.event.sessionId), TRUE),
                   IF IsSome(LastTurn.out.sent)
                   THEN Val(LastTurn.out.sent).requestId ELSE "",
                   LastTurn.sendOk)

\* The last turn was to fulfil a complete, valid request and its put_item
\* failed while send_message succeeded.
SaveFailed ==
    /\ DiningTurn
    /\ CompleteRequest
    /\ ~EnteredEnqueued
    /\ LastTurn.event.sessionId # None
    /\ ~LastTurn.saveOk
    /\ LastTurn.sendOk

\* C20: a failure of the Preference Store does not change the outcome of a
\* turn. When get_item fails the turn pre-fills nothing and returns the
\* action, slots, message and queue submission of the same turn in a session
\* with no stored preference; when put_item fails in a fulfilling turn the
\* DiningRequest is still submitted and the turn returns Close with the
\* confirmation, the store being left as it was.
C20_StoreFailuresSwallowed ==
    /\ (IsSome(turn) /\ GetFailed) =>
          /\ LastTurn.out.filled = {}
          /\ LastTurn.out.resp = WithoutStoredPreference.resp
          /\ LastTurn.out.error = WithoutStoredPreference.error
          /\ LastTurn.out.sent = WithoutStoredPreference.sent
          /\ IsSome(LastTurn.out.resp) =>
                /\ ReturnedSlots = LastTurn.event.slots
                /\ Val(LastTurn.out.resp).sessionAttributes.reused_notice
                      = LastTurn.event.sessionAttributes.reused_notice
    /\ (IsSome(turn) /\ SaveFailed) =>
          /\ LastTurn.out.error = None
          /\ ConfirmedClose
          /\ SubmittedOne
          /\ prefTable = LastTurn.before.prefTable

\* Both calls to the store failed in one turn: the session has a stored
\* preference that get_item did not deliver, the request was complete, and
\* the turn submitted it and closed with the confirmation.
C20_Witness ==
    /\ IsSome(turn)
    /\ GetFailed
    /\ LastTurn.before.prefTable[Val(LastTurn.event.sessionId)] # None
    /\ SaveFailed
    /\ ConfirmedClose
    /\ SubmittedOne

\* get_item failed in a turn that would have pre-filled the location, and
\* the turn delegated without a notice.
C20_GetFailedUnfilled ==
    /\ IsSome(turn)
    /\ GetFailed
    /\ TrimmedText("Location") = ""
    /\ LastTurn.before.prefTable[Val(LastTurn.event.sessionId)] # None
    /\ IsSome(LastTurn.out.resp)
    /\ Val(LastTurn.out.resp).type = "Delegate"
    /\ Val(LastTurn.out.resp).message = None

(***************************************************************************)
(* Further properties of the worker                                        *)
(***************************************************************************)
\* The step s is a process step whose search was answered with an error
\* status, or whose batch_get_item failed.
SearchFailedIn(s) == s.step = "process" /\ Val(s.response).status >= 300

CatalogFailedIn(s) ==
    /\ s.step = "process"
    /\ Val(s.response).status < 300
    /\ ~s.catalogOk

\* C21: an execution whose search query or whose batch_get_item fails ends
\* with that error, having made no later call: it sends no notification and
\* makes no delete, so the step leaves the queue, the notified requests and
\* the deleted messages as they were.
C21_LookupFailureFatal ==
    /\ []((IsSome(exec) /\ SearchFailedIn(LastStep)) =>
            /\ LastStep.done.error = Some("SearchUnavailable")
            /\ LastStep.done.calls = <<"search">>
            /\ LastStep.done.mail = None
            /\ workers[LastStep.worker] = IdleWorker)
    /\ []((IsSome(exec) /\ CatalogFailedIn(LastStep)) =>
            /\ LastStep.done.error = Some("CatalogUnavailable")
            /\ LastStep.done.calls = <<"search", "batch_get_item">>
            /\ LastStep.done.mail = None
            /\ workers[LastStep.worker] = IdleWorker)
    /\ [][(/\ IsSome(exec')
           /\ SearchFailedIn(Val(exec')) \/ CatalogFailedIn(Val(exec')))
          => (queue' = queue /\ notified' = notified /\ deleted' = deleted)
         ]_vars

\* batch_get_item failed after three ids were sampled; the message is still
\* in the queue, not notified.
C21_Witness ==
    /\ IsSome(exec)
    /\ CatalogFailedIn(LastStep)
    /\ Len(LastStep.done.chosen) = 3
    /\ LastStep.done.error = Some("CatalogUnavailable")
    /\ InQueue(Val(LastStep.msg).id)
    /\ Val(LastStep.msg).id \notin notified

\* The process step whose search returned at least three ids and whose
\* batch_get_item and send_email both succeeded.
LookupAnswered ==
    /\ ProcessStep
    /\ SearchReturned
    /\ Len(Candidates) >= 3
    /\ LastStep.catalogOk
    /\ LastStep.sendOk

\* The ids handed to the Catalog Store that it holds a record for, in the
\* order asked.
Held == SelectSeq(LastStep.done.chosen, LAMBDA rid : rid \in LastStep.catalog)

\* The delete step whose delete_message call failed.
DeleteFailed ==
    IsSome(exec) /\ LastStep.step = "delete" /\ ~LastStep.deleteOk

\* What C22 says of the execution up to the send: with records for only
\* some or none of the sampled ids it does not fail, sends one notification
\* whose lines are the records returned, one line each (at most 3, none for
\* an id without a record), and goes on to the delete.
PartialResultsSent ==
    [](LookupAnswered =>
            /\ LastStep.done.error = None
            /\ IsSome(LastStep.done.mail)
            /\ Len(LastStep.done.items) = Len(Held)
            /\ Len(Val(LastStep.done.mail).lines) = Len(Held)
            /\ Len(Held) \in 0..3
            /\ \A i \in DOMAIN Held :
                  /\ LastStep.done.items[i].businessId = Held[i]
                  /\ Val(LastStep.done.mail).lines[i]
                        = format_item(Restaurant(Held[i]))
            /\ LastStep.done.calls = <<"search", "batch_get_item", "send_email">>
            /\ Val(LastStep.msg).id \in notified
            /\ workers[LastStep.worker].pc = "sent"
            /\ Handle(Val(workers[LastStep.worker].msg)) = Val(LastStep.msg))

\* C22 (as stated): when the Catalog Store holds records for only some or
\* none of the sampled ids the execution does not fail, sends one
\* notification with one line per record returned, and after the send
\* deletes the message: every delete step removes it from the queue.
C22_SendThenAlwaysDeleted ==
    /\ PartialResultsSent
    /\ [][(IsSome(exec') /\ Val(exec').step = "delete")
          => (/\ ~(\E i \in DOMAIN queue' :
                      queue'[i].id = Val(Val(exec').msg).id)
              /\ Val(Val(exec').msg).id \in deleted')]_vars

\* The step taken is a delete step.
DeleteStepTaken == IsSome(exec') /\ Val(exec').step = "delete"

\* The message of the delete step taken has left the queue and is deleted.
RemovedByStep ==
    /\ ~(\E i \in DOMAIN queue' : queue'[i].id = Val(Val(exec').msg).id)
    /\ Val(Val(exec').msg).id \in deleted'

\* C22: the same up to the send.  The delete step whose delete_message call
\* succeeds returns the result; it removes the message from the queue when
\* its receipt handle is still the latest one given out for the message,
\* and with a handle that is no longer the latest (the message was received
\* again meanwhile) it either removes the message or leaves the queue as it
\* is.  When the call fails the execution ends with that error and without
\* a result, the message still in the queue and not deleted.
C22_PartialCatalogResults ==
    /\ PartialResultsSent
    /\ [][DeleteStepTaken
          => IF Val(exec').deleteOk
             THEN /\ Val(exec').done.error = None
                  /\ IsSome(Val(exec').result)
                  /\ IF Stale(Val(Val(exec').msg))
                     THEN \/ RemovedByStep
                          \/ queue' = queue /\ deleted' = deleted
                     ELSE RemovedByStep
             ELSE /\ queue' = queue
                  /\ deleted' = deleted
                  /\ Val(exec').done.error = Some("DeleteError")
                  /\ Val(exec').result = None]_vars

\* The Catalog Store held a record for one of three distinct sampled ids:
\* the notification has one line.
C22_Witness ==
    /\ LookupAnswered
    /\ Cardinality(Range(LastStep.done.chosen)) = 3
    /\ Len(Held) = 1
    /\ Len(Val(LastStep.done.mail).lines) = 1
    /\ workers[LastStep.worker].pc = "sent"

\* The Catalog Store held none of the sampled ids: the notification has no
\* line.
C22_NoneHeld ==
    /\ LookupAnswered
    /\ Len(Held) = 0
    /\ IsSome(LastStep.done.mail)
    /\ Val(LastStep.done.mail).lines = <<>>

(***************************************************************************)
(* Properties of continued dialogs (under ContinuedSpec and ReuseSpec)     *)
(***************************************************************************)
\* The last turn answered with the reuse-notice Delegate.
ReturnedNotice ==
    /\ DiningTurn
    /\ IsSome(LastTurn.out.resp)
    /\ Val(LastTurn.out.resp).type = "Delegate"
    /\ IsSome(Val(LastTurn.out.resp).message)

\* The step is a turn of the same session invoked with the slots and the
\* sessionAttributes the last turn returned.
ContinuesLastTurn ==
    /\ IsSome(turn) /\ IsSome(LastTurn.out.resp)
    /\ IsSome(turn')
    /\ Val(turn').event.intent = LastTurn.event.intent
    /\ Val(turn').event.sessionId = LastTurn.event.sessionId
    /\ Val(turn').event.slots = Val(LastTurn.out.resp).intent.slots
    /\ Val(turn').event.sessionAttributes
          = Val(LastTurn.out.resp).sessionAttributes

\* The outcome of the last turn is one of slot validation: the first invalid
\* slot elicited (or the exception of the party-size check), and with no
\* invalid slot a plain Delegate or the Close of fulfilment.
ValidationOutcome ==
    /\ InvalidSlots # {} =>
          \/ Elicits(FirstInvalid)
          \/ LastTurn.out.error = Some("ValueError")
    /\ InvalidSlots = {} =>
          \/ /\ IsSome(LastTurn.out.resp)
             /\ Val(LastTurn.out.resp).type = "Delegate"
             /\ Val(LastTurn.out.resp).message = None
          \/ /\ IsSome(LastTurn.out.resp)
             /\ Val(LastTurn.out.resp).type = "Close"
          \/ LastTurn.out.error = Some("QueueSubmissionError")

\* C23: the turn that follows a reuse-notice Delegate with the slots and
\* sessionAttributes that Delegate returned pre-fills nothing, does not
\* answer with the notice again, returns the slots as received and ends in
\* an outcome of slot validation.
C23_NoticeNotRepeated ==
    [][(ReturnedNotice /\ ContinuesLastTurn) =>
          /\ NothingPrefilled'
          /\ Val(turn').out.filled = {}
          /\ ~ReturnedNotice'
          /\ IsSome(Val(turn').out.resp) =>
                Val(Val(turn').out.resp).intent.slots = Val(turn').event.slots
          /\ ValidationOutcome'
      ]_vars

\* A continued turn on the dialog hook: it received the location filled in
\* by the notice turn and the notice in the sessionAttributes, looked the
\* preference up again, filled nothing and elicited the invalid cuisine.
C23_Witness ==
    /\ DiningTurn
    /\ LastTurn.event.invocationSource = "DialogCodeHook"
    /\ LastTurn.event.slots["Location"] = make_slot("manhattan")
    /\ LastTurn.event.sessionAttributes.reused_notice
          = Some("Reusing your last preferences (location: manhattan).")
    /\ IsSome(LastTurn.pref)
    /\ LastTurn.out.filled = {}
    /\ Elicits("Cuisine")

\* The record passes the Slot Validator: its location and cuisine are
\* non-empty, trimmed and valid.
ValidPreference(item) ==
    /\ item.lastLocation # "" /\ Strip(item.lastLocation) = item.lastLocation
    /\ IsValidLocation(item.lastLocation)
    /\ item.lastCuisine # "" /\ Strip(item.lastCuisine) = item.lastCuisine
    /\ IsAllowedCuisine(item.lastCuisine)

\* C24: every record in the Preference Store, and every record a turn hands
\* to save_prefs, holds a location and a cuisine that pass the Slot
\* Validator; a turn that receives in a slot the value pre-filled from the
\* stored record does not elicit that slot, and the turn that follows a
\* pre-fill with the slots returned elicits none of the slots pre-filled.
C24_StoredPreferenceValid ==
    /\ [](\A s \in Sessions :
            IsSome(prefTable[s]) => ValidPreference(Val(prefTable[s])))
    /\ [](IsSome(turn) =>
            /\ IsSome(LastTurn.out.item) => ValidPreference(Val(LastTurn.out.item))
            /\ \A n \in LastTurn.out.filled : ~Elicits(n)
            /\ \A s \in Sessions :
                  (DiningTurn /\ IsSome(LastTurn.before.prefTable[s])) =>
                     /\ LastTurn.event.slots["Location"]
                           = make_slot(Val(LastTurn.before.prefTable[s]).lastLocation)
                        => ~Elicits("Location")
                     /\ LastTurn.event.slots["Cuisine"]
                           = make_slot(Val(LastTurn.before.prefTable[s]).lastCuisine)
                        => ~Elicits("Cuisine"))
    /\ [][ContinuesLastTurn =>
             \A n \in LastTurn.out.filled :
                ~(/\ IsSome(Val(turn').out.resp)
                  /\ Val(Val(turn').out.resp).type = "ElicitSlot"
                  /\ Val(Val(turn').out.resp).slotToElicit = Some(n))
         ]_vars

\* A record written from padded, mixed-case values was stored trimmed and in
\* lower case, pre-filled both slots of a later session, and the continued
\* turn validated them and submitted the request.
C24_Witness ==
    /\ DiningTurn
    /\ LastTurn.event.slots["Location"] = make_slot("new york")
    /\ LastTurn.event.slots["Cuisine"] = make_slot("thai")
    /\ LastTurn.event.sessionAttributes.reused_notice
          = Some("Reusing your last preferences (location: new york, cuisine: thai).")
    /\ ConfirmedClose
    /\ SubmittedOne
    /\ prefTable["web-session"]
          = Some(PrefItem("web-session", "new york", "thai"))

(***************************************************************************)
(* Progress of the worker (checked under LiveSpec)                         *)
(***************************************************************************)
\* The DiningRequests submitted: the ids given out so far.
Submitted == 1..nextId

Served(id) == id \in notified /\ id \in deleted

\* A message leaves the queue only by a delete that follows its
\* notification.
NeverDropped == \A id \in Submitted : InQueue(id) \/ Served(id)

\* batch_get_item failed on a delivery past the first MaxReceives - 1.
FinalCatalogFailure ==
    /\ IsSome(exec)
    /\ CatalogFailedIn(LastStep)
    /\ Val(LastStep.msg).receipt = MaxReceives

\* delete_message failed on a delivery past the first MaxReceives - 1.
FinalDeleteFailure ==
    /\ DeleteFailed
    /\ Val(LastStep.msg).receipt = MaxReceives

\* C25 (as stated): with fair redelivery and repeated executions, and the
\* search and the send failing only finitely often, every DiningRequest
\* submitted is eventually notified and its message deleted, and until then
\* its message stays in the queue.
C25_EventuallyServed ==
    /\ []NeverDropped
    /\ \A id \in 1..MaxSends :
          (id \in Submitted) ~> Served(id)

\* C25: the same when, in addition, batch_get_item of the Catalog Store and
\* delete_message of the queue fail only finitely often.
C25_EventuallyServedIfCatalogAnswers ==
    /\ []NeverDropped
    /\ ([]~FinalCatalogFailure /\ []~FinalDeleteFailure) =>
          \A id \in 1..MaxSends :
             (id \in Submitted) ~> Served(id)

\* A message notified and deleted on its second delivery, after the first
\* execution failed.
C25_Witness ==
    /\ IsSome(exec) /\ LastStep.step = "delete"
    /\ Val(LastStep.msg).receipt = 2
    /\ Served(Val(LastStep.msg).id)
    /\ queue = <<>>

(***************************************************************************)
(* Concurrent executions (checked under ConcurrentSpec)                    *)
(***************************************************************************)
\* The messages of a queue other than the one with the id, in order.
Others(q, id) == SelectSeq(q, LAMBDA x : x.id # id)

\* C26: with executions running concurrently, an execution arrives at its
\* delete only by its own successful send for the message it received, its
\* delete names the handle it received and removes no other message (the
\* messages held by other executions and the ones waiting stay as they
\* are), a message leaves the queue only by the delete of an execution that
\* received it, and a step of one execution leaves the others where they
\* were.
C26_DeletesOnlyOwnMessage ==
    [][/\ \A w \in Workers :
            (workers'[w].pc = "sent" /\ workers[w].pc # "sent") =>
               /\ IsSome(exec')
               /\ Val(exec').worker = w
               /\ Val(exec').step = "process"
               /\ Val(exec').sendOk
               /\ IsSome(Val(exec').done.mail)
               /\ workers[w].pc = "received"
               /\ workers'[w].msg = workers[w].msg
               /\ Val(exec').msg = Some(Handle(Val(workers[w].msg)))
       /\ (IsSome(exec') /\ Val(exec').step = "delete") =>
            /\ workers[Val(exec').worker].pc = "sent"
            /\ Val(exec').msg
                  = Some(Handle(Val(workers[Val(exec').worker].msg)))
            /\ Others(queue', Val(Val(exec').msg).id)
                  = Others(queue, Val(Val(exec').msg).id)
            /\ deleted' \subseteq deleted \cup {Val(Val(exec').msg).id}
            /\ notified' = notified
       /\ \A x \in Range(queue) :
            ~(\E i \in DOMAIN queue' : queue'[i].id = x.id) =>
               /\ IsSome(exec')
               /\ Val(exec').step = "delete"
               /\ Val(Val(exec').msg).id = x.id
               /\ x.id \in notified
       /\ \A w \in Workers : \A v \in Workers \ {w} :
            workers'[w] # workers[w] => workers'[v] = workers[v]
      ]_vars

\* One execution has just deleted the message it received while the other
\* holds a different message, which is still in the queue.
C26_Witness ==
    /\ IsSome(exec) /\ LastStep.step = "delete"
    /\ Val(LastStep.msg).id \in deleted
    /\ ~InQueue(Val(LastStep.msg).id)
    /\ \E v \in Workers \ {LastStep.worker} :
          /\ workers[v].pc \in {"received", "sent"}
          /\ Val(workers[v].msg).id # Val(LastStep.msg).id
          /\ InQueue(Val(workers[v].msg).id)
          /\ Val(workers[v].msg).id \notin deleted

====
